---- MODULE Spec2Model ----
(***************************************************************************)
(* A model of the ledger engine of blockchain-demo-rust: the account world *)
(* state (account.rs), transactions (transaction.rs), blocks and the       *)
(* proof-of-work loop (block.rs), the chain (blockchain.rs) and the miner  *)
(* (miner.rs).                                                             *)
(*                                                                         *)
(* Byte strings are sequences of integer cells: one cell stands for one    *)
(* fixed-width field (a 20-byte address, a 32-byte U256, an 8-byte u64).   *)
(* Keccak256 is modelled symbolically: the digest of a byte string is the  *)
(* byte string itself behind a tag cell, so two digests are equal exactly  *)
(* when their inputs are (no collisions), and no digest is H256::zero.     *)
(* The lowercase-hex rendering of a digest, which is all the proof of work *)
(* looks at, is a mixing function of the digest, HexLen digits long.       *)
(*                                                                         *)
(* Three specifications drive the code: Spec is a Blockchain under         *)
(* add_block and Miner::mine_block, SpecWorld a WorldState under its       *)
(* methods, SpecMine a Block under set_hash and mine.                      *)
(***************************************************************************)
EXTENDS Integers, Sequences, FiniteSets, TLC

VARIABLES
    blocks,     \* Blockchain.blocks: the sequence of blocks
    state,      \* Blockchain.state (a WorldState): [accounts, state_root]
    last,       \* the last operation: its input, its result, its per-transaction trace
    snap,       \* a WorldStateSnapshot taken from state, or NoSnapshot
    base,       \* the WorldState as it was when snap was taken
    blk,        \* a Block under Block::mine
    mined,      \* the result of the last Block::mine on blk
    rpc         \* RpcServer: the mutex, the pool and the handlers in flight

vars == <<blocks, state, last, snap, base, blk, mined, rpc>>

----------------------------------------------------------------------------
(* Bounds of the model *)

MaxChanges == 2     \* calls on the chain that changed its blocks or its state
MaxNonce == 2       \* transaction nonces offered by callers: 0..MaxNonce
MaxDifficulty == 3  \* difficulties offered to Block::mine: 0..MaxDifficulty
MaxOps == 4         \* WorldState operations after construction
MaxMined == 3       \* calls of mine_block that changed the chain, on a chain mined only
MaxRequests == 3    \* requests the RPC server is sent

(* Program constants *)

HexLen == 2             \* digits of a digest's hex rendering (64 in the source, scaled)
HexBase == 4            \* values of one digit of the rendering (16 in the source, scaled)
MaxAttempts == 12       \* the attempt cap of Block::mine (10_000_000 in the source, scaled)
BlockGasLimit == 30000000
TransferGas == 21000    \* gas_limit of Transaction::new_transfer
FlatTxGas == 21000      \* gas counted by add_block for a transaction without outcome
DefaultGasPrice == 2    \* gas_price of the constructors (20_000_000_000 in the source, scaled)
BlockReward == 5000     \* Miner::new
PowCheckDifficulty == 1 \* the difficulty add_block checks a sealed block against
GenesisDifficulty == 2  \* Block::genesis

----------------------------------------------------------------------------
(* Addresses, hashes, byte strings *)

ZeroAddress == 0                \* Address::zero()
Users == {1, 2}
Addresses == {ZeroAddress} \cup Users
NoAddress == -1                 \* Option<Address>::None

NoHash == << >>                 \* Option<H256>::None
ZeroHash == <<0>>               \* H256::zero()
JunkHash == <<99>>              \* H256::from([99u8; 32])

\* Keccak256::digest: symbolic, injective, never H256::zero.
Keccak256(bytes) == <<1>> \o bytes

\* H256::as_bytes inside a longer hasher input: a fixed-width field, so framed.
AsBytes(h) == <<Len(h)>> \o h

RECURSIVE Pow(_, _)
Pow(b, e) == IF e = 0 THEN 1 ELSE b * Pow(b, e - 1)

\* The number of renderings HexLen digits long.
HexSpace == Pow(HexBase, HexLen)

\* The digits depend on every cell of the digest and on its position; the
\* cells lo..hi are folded by halves.
RECURSIVE MixRange(_, _, _)
MixRange(bytes, lo, hi) ==
    IF lo > hi THEN 0
    ELSE IF lo = hi THEN ((bytes[lo] % HexSpace) * ((2 * lo + 1) % HexSpace)) % HexSpace
    ELSE LET mid == (lo + hi) \div 2
         IN (MixRange(bytes, lo, mid) + MixRange(bytes, mid + 1, hi)) % HexSpace

\* The leading HexLen hex digits of a digest, as a number.
LeadingHex(h) == MixRange(h, 1, Len(h))

\* format!("{:x}", hash): the digits, most significant first.
ToHex(h) ==
    LET v == LeadingHex(h)
    IN [i \in 1..HexLen |-> (v \div Pow(HexBase, HexLen - i)) % HexBase]

\* "0".repeat(difficulty)
ZeroString(d) == [i \in 1..d |-> 0]

\* str::starts_with
StartsWith(str, prefix) ==
    /\ Len(prefix) <= Len(str)
    /\ \A i \in 1..Len(prefix) : str[i] = prefix[i]

----------------------------------------------------------------------------
(* transaction.rs *)

Transaction(from, to, value, data, gas_limit, gas_price, nonce, tx_type) ==
    [from |-> from, to |-> to, value |-> value, data |-> data,
     gas_limit |-> gas_limit, gas_price |-> gas_price, nonce |-> nonce,
     hash |-> NoHash, tx_type |-> tx_type]

new_transfer(from, to, value, nonce) ==
    Transaction(from, to, value, << >>, TransferGas, DefaultGasPrice, nonce, "Transfer")

CallGasLimit == 500000
DeploymentGasLimit == 2000000

new_contract_deployment(from, bytecode, value, nonce) ==
    Transaction(from, NoAddress, value, bytecode, DeploymentGasLimit, DefaultGasPrice,
                nonce, "ContractDeployment")

new_contract_call(from, to, calldata, value, nonce) ==
    Transaction(from, to, value, calldata, CallGasLimit, DefaultGasPrice, nonce,
                "ContractCall")

new_with_gas(from, to, value, data, gas_limit, gas_price, nonce, tx_type) ==
    Transaction(from, to, value, data, gas_limit, gas_price, nonce, tx_type)

TxTypeTag(tx_type) ==
    CASE tx_type = "Transfer" -> 0
      [] tx_type = "ContractDeployment" -> 1
      [] tx_type = "ContractCall" -> 2

\* A mutant of TxHashInput: the nonce is not fed to the hasher.
TxHashInputWithoutNonce(tx) ==
    <<tx.from>>
    \o (IF tx.to # NoAddress THEN <<tx.to>> ELSE <<0>>)
    \o <<tx.value>> \o tx.data
    \o <<tx.gas_limit, tx.gas_price, TxTypeTag(tx.tx_type)>>

\* What calculate_hash feeds the hasher, one cell for each fixed-width
\* field and one for each byte of data.
TxHashInput(tx) ==
    <<tx.from>>
    \o (IF tx.to # NoAddress THEN <<tx.to>> ELSE <<0>>)
    \o <<tx.value>> \o tx.data
    \o <<tx.gas_limit, tx.gas_price, tx.nonce, TxTypeTag(tx.tx_type)>>

\* Transaction::calculate_hash
TxCalculateHash(tx) == Keccak256(TxHashInput(tx))

\* Transaction::set_hash
TxSetHash(tx) == [tx EXCEPT !.hash = TxCalculateHash(tx)]

is_contract_deployment(tx) == tx.tx_type = "ContractDeployment"
is_contract_call(tx) == tx.tx_type = "ContractCall"

estimated_gas_cost(tx) == tx.gas_price * tx.gas_limit

\* A mutant of validate: a Transfer may carry data.
validate_transfer_with_data(tx) ==
    IF tx.gas_limit = 0 THEN "Gas limit cannot be zero"
    ELSE IF tx.gas_price = 0 THEN "Gas price cannot be zero"
    ELSE IF tx.tx_type = "Transfer" /\ tx.to = NoAddress THEN "Transfer must have a recipient"
    ELSE IF tx.tx_type = "ContractDeployment" /\ tx.to # NoAddress
        THEN "Contract deployment should not have a recipient"
    ELSE IF tx.tx_type = "ContractDeployment" /\ tx.data = << >>
        THEN "Contract deployment must have bytecode"
    ELSE IF tx.tx_type = "ContractCall" /\ tx.to = NoAddress
        THEN "Contract call must have a recipient"
    ELSE "Ok"

\* Transaction::validate: "Ok", or the first error the code returns.
validate(tx) ==
    IF tx.gas_limit = 0 THEN "Gas limit cannot be zero"
    ELSE IF tx.gas_price = 0 THEN "Gas price cannot be zero"
    ELSE IF tx.tx_type = "Transfer" /\ tx.to = NoAddress THEN "Transfer must have a recipient"
    ELSE IF tx.tx_type = "Transfer" /\ tx.data # << >> THEN "Transfer should not have data"
    ELSE IF tx.tx_type = "ContractDeployment" /\ tx.to # NoAddress
        THEN "Contract deployment should not have a recipient"
    ELSE IF tx.tx_type = "ContractDeployment" /\ tx.data = << >>
        THEN "Contract deployment must have bytecode"
    ELSE IF tx.tx_type = "ContractCall" /\ tx.to = NoAddress
        THEN "Contract call must have a recipient"
    ELSE "Ok"

----------------------------------------------------------------------------
(* account.rs: Account *)

NoStorage == << >>      \* an empty HashMap<U256, U256>
NoAccounts == << >>     \* an empty HashMap<Address, Account>

\* Account::new
NewAccount ==
    [balance |-> 0, nonce |-> 0, code |-> << >>, code_hash |-> ZeroHash,
     storage |-> NoStorage]

\* Account::new_contract
new_contract(balance, code) ==
    [balance |-> balance, nonce |-> 0, code |-> code,
     code_hash |-> IF code = << >> THEN ZeroHash ELSE Keccak256(code),
     storage |-> NoStorage]

\* A mutant of is_empty: the storage is not looked at.
is_empty_but_for_storage(account) ==
    /\ account.balance = 0
    /\ account.nonce = 0
    /\ account.code = << >>

\* Account::is_empty
is_empty(account) ==
    /\ account.balance = 0
    /\ account.nonce = 0
    /\ account.code = << >>
    /\ DOMAIN account.storage = {}

\* Account::set_code
set_code(account, code) ==
    [account EXCEPT !.code = code,
                    !.code_hash = IF code = << >> THEN ZeroHash ELSE Keccak256(code)]

\* HashMap::insert / HashMap::remove on a map modelled as a function
MapInsert(map, key, value) ==
    [k \in DOMAIN map \cup {key} |-> IF k = key THEN value ELSE map[k]]
MapRemove(map, key) == [k \in DOMAIN map \ {key} |-> map[k]]

\* A mutant of AccountSetStorage: a zero is stored like any other value.
AccountSetStorageKeepZero(account, key, value) ==
    [account EXCEPT !.storage = MapInsert(account.storage, key, value)]

\* Account::set_storage
AccountSetStorage(account, key, value) ==
    IF value = 0 THEN [account EXCEPT !.storage = MapRemove(account.storage, key)]
    ELSE [account EXCEPT !.storage = MapInsert(account.storage, key, value)]

\* Account::clear_storage
AccountClearStorage(account) == [account EXCEPT !.storage = NoStorage]

Max(S) == CHOOSE x \in S : \A y \in S : y <= x
Min(S) == CHOOSE x \in S : \A y \in S : x <= y

\* HashMap::iter: the keys in the map's own order, which is not the sorted one.
RECURSIVE HashMapIter(_)
HashMapIter(keys) ==
    IF keys = {} THEN << >> ELSE <<Max(keys)>> \o HashMapIter(keys \ {Max(keys)})

\* A mutant of SortByKey: the keys are left in the order of iteration.
SortByKeyUnsorted(order) == order

\* sort_by_key: ascending by key.
RECURSIVE SortByKey(_)
SortByKey(order) ==
    IF order = << >> THEN << >>
    ELSE LET m == Min({order[i] : i \in 1..Len(order)})
         IN <<m>> \o SortByKey(SelectSeq(order, LAMBDA k : k # m))

RECURSIVE StreamStorage(_, _, _)
StreamStorage(storage, sorted, i) ==
    IF i > Len(sorted) THEN << >>
    ELSE <<sorted[i], storage[sorted[i]]>> \o StreamStorage(storage, sorted, i + 1)

\* Account::storage_root
storage_root(account) ==
    IF DOMAIN account.storage = {} THEN ZeroHash
    ELSE Keccak256(StreamStorage(account.storage,
                                 SortByKey(HashMapIter(DOMAIN account.storage)), 1))

----------------------------------------------------------------------------
(* account.rs: WorldState *)

RECURSIVE StreamAccounts(_, _, _)
StreamAccounts(accounts, sorted, i) ==
    IF i > Len(sorted) THEN << >>
    ELSE LET account == accounts[sorted[i]]
             account_hash == Keccak256(<<account.balance, account.nonce>>
                                       \o AsBytes(account.code_hash)
                                       \o AsBytes(storage_root(account)))
         IN <<sorted[i]>> \o AsBytes(account_hash)
            \o StreamAccounts(accounts, sorted, i + 1)

\* The digest update_state_root computes when the map iterates in `order`.
RootOf(accounts, order) ==
    IF DOMAIN accounts = {} THEN ZeroHash
    ELSE Keccak256(StreamAccounts(accounts, SortByKey(order), 1))

\* WorldState::update_state_root
update_state_root(ws) ==
    [ws EXCEPT !.state_root = RootOf(ws.accounts, HashMapIter(DOMAIN ws.accounts))]

\* WorldState::new
NewWorldState == [accounts |-> NoAccounts, state_root |-> ZeroHash]

\* WorldState::get_account_mut: the accounts with `address` materialized.
get_account_mut(accounts, address) ==
    IF address \in DOMAIN accounts THEN accounts
    ELSE MapInsert(accounts, address, NewAccount)

get_balance(ws, address) ==
    IF address \in DOMAIN ws.accounts THEN ws.accounts[address].balance ELSE 0

get_nonce(ws, address) ==
    IF address \in DOMAIN ws.accounts THEN ws.accounts[address].nonce ELSE 0

get_storage(ws, address, key) ==
    IF address \in DOMAIN ws.accounts /\ key \in DOMAIN ws.accounts[address].storage
    THEN ws.accounts[address].storage[key] ELSE 0

create_account(ws, address, account) ==
    update_state_root([ws EXCEPT !.accounts = MapInsert(ws.accounts, address, account)])

delete_account(ws, address) ==
    update_state_root([ws EXCEPT !.accounts = MapRemove(ws.accounts, address)])

set_balance(ws, address, balance) ==
    update_state_root(
        [ws EXCEPT !.accounts =
            [get_account_mut(ws.accounts, address) EXCEPT ![address].balance = balance]])

set_nonce(ws, address, nonce) ==
    update_state_root(
        [ws EXCEPT !.accounts =
            [get_account_mut(ws.accounts, address) EXCEPT ![address].nonce = nonce]])

increment_nonce(ws, address) ==
    update_state_root(
        [ws EXCEPT !.accounts =
            [get_account_mut(ws.accounts, address) EXCEPT ![address].nonce = @ + 1]])

\* A mutant of transfer: the sender's account is fetched before the balance
\* is checked.
transfer_fetching_first(ws, from, to, amount) ==
    IF get_balance(ws, from) < amount
    THEN [ok |-> FALSE, err |-> "Insufficient balance",
          ws |-> [ws EXCEPT !.accounts = get_account_mut(ws.accounts, from)]]
    ELSE LET debited == [get_account_mut(ws.accounts, from) EXCEPT
                            ![from].balance = @ - amount,
                            ![from].nonce = @ + 1]
             credited == [get_account_mut(debited, to) EXCEPT
                            ![to].balance = @ + amount]
         IN [ok |-> TRUE, err |-> "Ok",
             ws |-> update_state_root([ws EXCEPT !.accounts = credited])]

\* WorldState::transfer: [ok, err, ws]; on an error the state is the one given.
transfer(ws, from, to, amount) ==
    IF get_balance(ws, from) < amount
    THEN [ok |-> FALSE, err |-> "Insufficient balance", ws |-> ws]
    ELSE LET debited == [get_account_mut(ws.accounts, from) EXCEPT
                            ![from].balance = @ - amount,
                            ![from].nonce = @ + 1]
             credited == [get_account_mut(debited, to) EXCEPT
                            ![to].balance = @ + amount]
         IN [ok |-> TRUE, err |-> "Ok",
             ws |-> update_state_root([ws EXCEPT !.accounts = credited])]

\* WorldState::deploy_contract: [ok, ws]
deploy_contract(ws, deployer, contract_address, code) ==
    IF contract_address \in DOMAIN ws.accounts THEN [ok |-> FALSE, ws |-> ws]
    ELSE LET bumped == increment_nonce(ws, deployer)
         IN [ok |-> TRUE,
             ws |-> update_state_root(
                 [bumped EXCEPT !.accounts =
                     MapInsert(bumped.accounts, contract_address, new_contract(0, code))])]

set_contract_code(ws, address, code) ==
    update_state_root(
        [ws EXCEPT !.accounts =
            [get_account_mut(ws.accounts, address) EXCEPT
                ![address] = set_code(@, code)]])

set_storage(ws, address, key, value) ==
    update_state_root(
        [ws EXCEPT !.accounts =
            [get_account_mut(ws.accounts, address) EXCEPT
                ![address] = AccountSetStorage(@, key, value)]])

clear_storage(ws, address) ==
    IF address \in DOMAIN ws.accounts
    THEN update_state_root(
            [ws EXCEPT !.accounts = [@ EXCEPT ![address] = AccountClearStorage(@)]])
    ELSE ws

\* WorldState::account_count
account_count(ws) == Cardinality(DOMAIN ws.accounts)

remove_empty_accounts(ws) ==
    update_state_root(
        [ws EXCEPT !.accounts =
            [a \in {x \in DOMAIN ws.accounts : ~is_empty(ws.accounts[x])} |->
                ws.accounts[a]]])

apply_changes(ws, other) ==
    update_state_root(
        [ws EXCEPT !.accounts =
            [a \in DOMAIN ws.accounts \cup DOMAIN other.accounts |->
                IF a \in DOMAIN other.accounts THEN other.accounts[a]
                ELSE ws.accounts[a]]])

\* WorldState::snapshot
snapshot(ws) == [accounts |-> ws.accounts, state_root |-> ws.state_root]

\* A mutant of restore_snapshot: only the accounts are put back.
restore_snapshot_accounts_only(ws, snapshot_) ==
    [ws EXCEPT !.accounts = snapshot_.accounts]

\* WorldState::restore_snapshot
restore_snapshot(ws, snapshot_) ==
    [accounts |-> snapshot_.accounts, state_root |-> snapshot_.state_root]


----------------------------------------------------------------------------
(* block.rs *)

\* Block::new, with SystemTime::now() read as `now`
BlockNew(number, parent_hash, transactions, now) ==
    [number |-> number, hash |-> NoHash, parent_hash |-> parent_hash,
     transactions |-> transactions, timestamp |-> now,
     gas_limit |-> BlockGasLimit, gas_used |-> 0, nonce |-> 0]

RECURSIVE TxHashBytes(_, _)
TxHashBytes(transactions, i) ==
    IF i > Len(transactions) THEN << >>
    ELSE (IF transactions[i].hash # NoHash THEN AsBytes(transactions[i].hash) ELSE << >>)
         \o TxHashBytes(transactions, i + 1)

\* Block::calculate_hash
calculate_hash(block) ==
    Keccak256(<<block.number>> \o AsBytes(block.parent_hash)
              \o <<block.timestamp, block.nonce, block.gas_limit, block.gas_used>>
              \o TxHashBytes(block.transactions, 1))

\* Block::set_hash
set_hash(block) == [block EXCEPT !.hash = calculate_hash(block)]

\* The loop of Block::mine from its `attempts`-th iteration on:
\* [block, attempts, panicked].
RECURSIVE MineLoop(_, _, _)
MineLoop(block, target, attempts) ==
    LET hash == calculate_hash(block)
        hash_str == ToHex(hash)
    IN IF StartsWith(hash_str, target)
       THEN [block |-> [block EXCEPT !.hash = hash], attempts |-> attempts + 1,
             panicked |-> FALSE]
       ELSE IF attempts + 1 > MaxAttempts
       THEN [block |-> [block EXCEPT !.nonce = @ + 1], attempts |-> attempts + 1,
             panicked |-> TRUE]
       ELSE MineLoop([block EXCEPT !.nonce = @ + 1], target, attempts + 1)

\* A mutant of mine: the hash found is stored after one more nonce increment.
mine_then_bump(block, difficulty) ==
    LET r == MineLoop(block, ZeroString(difficulty), 0)
    IN IF r.panicked THEN r ELSE [r EXCEPT !.block.nonce = @ + 1]

\* Block::mine
mine(block, difficulty) == MineLoop(block, ZeroString(difficulty), 0)

\* Block::is_valid_proof
is_valid_proof(block, difficulty) ==
    IF block.hash # NoHash THEN StartsWith(ToHex(block.hash), ZeroString(difficulty))
    ELSE FALSE

\* Block::genesis: [block, attempts, panicked]
genesis(now) == mine(BlockNew(0, ZeroHash, << >>, now), GenesisDifficulty)


----------------------------------------------------------------------------
(* evm.rs: the executor as the chain uses it.  revm itself is outside the  *)
(* repository: what it answers for a transaction is an input of the model. *)

NoOutcome == [kind |-> "None", gas_used |-> 0]  \* Option<ContractExecutionResult>::None

\* What revm may answer: Success, Revert, Halt (ExecutionResult) or an
\* error of transact_commit, with the gas and the output it reports and the
\* storage slots of the executing contract that transact_commit wrote in the
\* executor's database (one SSTORE on Success, none once rolled back).
VmAnswers ==
    {[kind |-> "Success", gas_used |-> 50000, output |-> <<42>>,
      writes |-> {[key |-> 1, value |-> 7]}],
     [kind |-> "Revert", gas_used |-> 30000, output |-> <<8>>, writes |-> {}],
     [kind |-> "Halt", gas_used |-> 40000, output |-> << >>, writes |-> {}],
     [kind |-> "Error", gas_used |-> 0, output |-> << >>, writes |-> {}]}

\* ContractUtils::calculate_create_address, as an address outside Users
calculate_create_address(deployer, nonce) == 10 + 4 * deployer + nonce

\* RevmExecutor::execute_transaction followed by save_state_to_world: the
\* accounts of the world state after the read-back.  revm charges the caller
\* the gas it used and advances the caller's nonce; only accounts that were
\* in the world state are read back, and no storage is.
save_state_to_world(ws, tx, answer) ==
    IF tx.from \in DOMAIN ws.accounts
    THEN [ws EXCEPT !.accounts[tx.from].nonce = @ + 1,
                    !.accounts[tx.from].balance =
                        IF @ >= answer.gas_used * tx.gas_price
                        THEN @ - answer.gas_used * tx.gas_price ELSE 0]
    ELSE ws

\* A mutant of process_execution_result: a Revert is an error like a Halt.
process_execution_result_strict(answer) ==
    IF answer.kind \in {"Halt", "Revert"}
    THEN [ok |-> FALSE, err |-> "EVM halted", result |-> NoOutcome]
    ELSE [ok |-> TRUE, err |-> "Ok",
          result |-> [kind |-> answer.kind, success |-> answer.kind = "Success",
                      gas_used |-> answer.gas_used, return_data |-> answer.output]]

\* RevmExecutor::process_execution_result: [ok, err, result]; the result is
\* the ContractExecutionResult, `kind` its reason.
process_execution_result(answer) ==
    IF answer.kind = "Halt"
    THEN [ok |-> FALSE, err |-> "EVM halted", result |-> NoOutcome]
    ELSE [ok |-> TRUE, err |-> "Ok",
          result |-> [kind |-> answer.kind, success |-> answer.kind = "Success",
                      gas_used |-> answer.gas_used, return_data |-> answer.output]]

\* RevmExecutor::execute_transaction: an error of transact_commit is
\* returned, any other answer is processed.
revm_execute_transaction(answer) ==
    IF answer.kind = "Error"
    THEN [ok |-> FALSE, err |-> "REVM execution failed", result |-> NoOutcome]
    ELSE process_execution_result(answer)

\* RevmExecutor::view_call on the executor's answer: [ok, err, return_data]
view_call(answer) ==
    IF answer.kind = "Error"
    THEN [ok |-> FALSE, err |-> "REVM execution failed", return_data |-> << >>]
    ELSE IF answer.kind = "Halt"
    THEN [ok |-> FALSE, err |-> "EVM halted", return_data |-> << >>]
    ELSE IF answer.kind = "Revert"
    THEN [ok |-> FALSE, err |-> "View call failed", return_data |-> << >>]
    ELSE [ok |-> TRUE, err |-> "Ok", return_data |-> answer.output]

----------------------------------------------------------------------------
(* blockchain.rs *)

\* Blockchain::get_latest_block
get_latest_block(chain) == chain[Len(chain)]

\* Blockchain::get_block_by_number: [found, block], Vec::get at the number.
get_block_by_number(chain, number) ==
    IF number < Len(chain) THEN [found |-> TRUE, block |-> chain[number + 1]]
    ELSE [found |-> FALSE, block |-> get_latest_block(chain)]

\* execute_with_revm once the executor has returned the result `outcome`.
CommitExecuted(ws, tx, answer, outcome) ==
    LET saved == save_state_to_world(ws, tx, answer)
        bumped == [saved EXCEPT !.accounts =
                      [get_account_mut(saved.accounts, tx.from) EXCEPT
                          ![tx.from].nonce = @ + 1]]
        addr == calculate_create_address(tx.from, tx.nonce)
        installed ==
            IF outcome.success /\ tx.tx_type = "ContractDeployment"
            THEN [bumped EXCEPT !.accounts =
                     [get_account_mut(bumped.accounts, addr) EXCEPT
                         ![addr] = IF outcome.return_data # << >>
                                   THEN set_code(@, outcome.return_data) ELSE @]]
            ELSE bumped
    IN [ok |-> TRUE, ws |-> installed, outcome |-> outcome, err |-> "Ok"]

\* A mutant of AfterExecuted: the executor's accounts are read back before
\* its answer is looked at.
AfterExecutedSavingFirst(ws, tx, answer, executed) ==
    IF ~executed.ok
    THEN [ok |-> FALSE, ws |-> save_state_to_world(ws, tx, answer), outcome |-> NoOutcome,
          err |-> executed.err]
    ELSE CommitExecuted(ws, tx, answer, executed.result)

\* execute_with_revm once the executor has answered `executed`.
AfterExecuted(ws, tx, answer, executed) ==
    IF ~executed.ok
    THEN [ok |-> FALSE, ws |-> ws, outcome |-> NoOutcome, err |-> executed.err]
    ELSE CommitExecuted(ws, tx, answer, executed.result)

\* Blockchain::execute_with_revm: [ok, ws, outcome, err]
execute_with_revm(ws, tx, answer) ==
    AfterExecuted(ws, tx, answer, revm_execute_transaction(answer))

\* A mutant of CoinbaseCredit: the recipient's nonce is advanced as well.
CoinbaseCreditWithNonce(ws, tx) ==
    [ws EXCEPT !.accounts =
        [get_account_mut(ws.accounts, tx.to) EXCEPT ![tx.to].balance = @ + tx.value,
                                                     ![tx.to].nonce = @ + 1]]

\* The coinbase short-circuit of execute_transaction: the credit.
CoinbaseCredit(ws, tx) ==
    [ws EXCEPT !.accounts =
        [get_account_mut(ws.accounts, tx.to) EXCEPT ![tx.to].balance = @ + tx.value]]

\* A mutant of TransferChecks: the balance is checked before the nonce.
TransferChecksBalanceFirst(ws, tx) ==
    IF get_balance(ws, tx.from) < tx.value + estimated_gas_cost(tx)
    THEN "Insufficient balance for transaction and gas"
    ELSE IF tx.nonce # get_nonce(ws, tx.from) THEN "Invalid nonce"
    ELSE "Ok"

\* The nonce and balance checks of the Transfer path: "Ok" or the error.
TransferChecks(ws, tx) ==
    IF tx.nonce # get_nonce(ws, tx.from) THEN "Invalid nonce"
    ELSE IF get_balance(ws, tx.from) < tx.value + estimated_gas_cost(tx)
    THEN "Insufficient balance for transaction and gas"
    ELSE "Ok"

\* A mutant of ChargeSender: the gas charged is credited to the zero address.
ChargeSenderCreditingZero(ws, tx) ==
    LET charged == [get_account_mut(ws.accounts, tx.from) EXCEPT
                       ![tx.from].nonce = @ + 1,
                       ![tx.from].balance = @ - estimated_gas_cost(tx)]
    IN [ws EXCEPT !.accounts =
           [get_account_mut(charged, ZeroAddress) EXCEPT
               ![ZeroAddress].balance = @ + estimated_gas_cost(tx)]]

\* A mutant of ChargeSender: the gas is charged twice over.
ChargeSenderTwice(ws, tx) ==
    [ws EXCEPT !.accounts =
        [get_account_mut(ws.accounts, tx.from) EXCEPT
            ![tx.from].nonce = @ + 1,
            ![tx.from].balance = @ - 2 * estimated_gas_cost(tx)]]

\* The Transfer path after state.transfer: the sender's nonce and gas.
ChargeSender(ws, tx) ==
    [ws EXCEPT !.accounts =
        [get_account_mut(ws.accounts, tx.from) EXCEPT
            ![tx.from].nonce = @ + 1,
            ![tx.from].balance = @ - estimated_gas_cost(tx)]]

\* Blockchain::execute_transaction: [ok, ws, outcome, err]
execute_transaction(ws, tx, answer) ==
    IF tx.from = ZeroAddress /\ tx.to # NoAddress
    THEN [ok |-> TRUE, ws |-> CoinbaseCredit(ws, tx), outcome |-> NoOutcome, err |-> "Ok"]
    ELSE IF validate(tx) # "Ok"
    THEN [ok |-> FALSE, ws |-> ws, outcome |-> NoOutcome, err |-> validate(tx)]
    ELSE IF is_contract_deployment(tx) \/ is_contract_call(tx)
    THEN execute_with_revm(ws, tx, answer)
    ELSE IF TransferChecks(ws, tx) # "Ok"
    THEN [ok |-> FALSE, ws |-> ws, outcome |-> NoOutcome, err |-> TransferChecks(ws, tx)]
    ELSE IF tx.to # NoAddress
    THEN LET moved == transfer(ws, tx.from, tx.to, tx.value)
         IN IF ~moved.ok
            THEN [ok |-> FALSE, ws |-> ws, outcome |-> NoOutcome,
                  err |-> "Insufficient balance"]
            ELSE [ok |-> TRUE, ws |-> ChargeSender(moved.ws, tx), outcome |-> NoOutcome,
                  err |-> "Ok"]
    ELSE [ok |-> TRUE, ws |-> ws, outcome |-> NoOutcome, err |-> "Ok"]

\* A mutant of Replay: every transaction of the block is executed on the
\* state the block started from.
RECURSIVE ReplayOnBlockState(_, _, _, _, _, _)
ReplayOnBlockState(ws, transactions, answers, i, total_gas_used, trace) ==
    IF i > Len(transactions)
    THEN [ok |-> TRUE, ws |-> ws, gas |-> total_gas_used, trace |-> trace, err |-> "Ok"]
    ELSE LET r == execute_transaction(ws, transactions[i], answers[i])
             run == Append(trace, [tx |-> transactions[i], before |-> ws,
                                   after |-> r.ws, ok |-> r.ok, err |-> r.err,
                                   outcome |-> r.outcome, answer |-> answers[i]])
         IN IF ~r.ok \/ i = Len(transactions)
            THEN [ok |-> r.ok, ws |-> r.ws, gas |-> total_gas_used + FlatTxGas,
                  trace |-> run, err |-> r.err]
            ELSE ReplayOnBlockState(ws, transactions, answers, i + 1,
                                    total_gas_used + FlatTxGas, run)

\* The replay loop of add_block from transaction i on:
\* [ok, ws, gas, trace, err]; the trace has one entry per transaction run.
\* ReplayStep is the body of the loop once execute_transaction has answered r.
RECURSIVE Replay(_, _, _, _, _, _), ReplayStep(_, _, _, _, _, _, _)
Replay(ws, transactions, answers, i, total_gas_used, trace) ==
    IF i > Len(transactions)
    THEN [ok |-> TRUE, ws |-> ws, gas |-> total_gas_used, trace |-> trace, err |-> "Ok"]
    ELSE ReplayStep(ws, transactions, answers, i, total_gas_used, trace,
                    execute_transaction(ws, transactions[i], answers[i]))

ReplayStep(ws, transactions, answers, i, total_gas_used, trace, r) ==
    IF ~r.ok
    THEN [ok |-> FALSE, ws |-> r.ws, gas |-> total_gas_used,
          trace |-> Append(trace, [tx |-> transactions[i], before |-> ws,
                                   after |-> r.ws, ok |-> r.ok, err |-> r.err,
                                   outcome |-> r.outcome, answer |-> answers[i]]),
          err |-> r.err]
    ELSE Replay(r.ws, transactions, answers, i + 1,
                total_gas_used + (IF r.outcome.kind # "None"
                                  THEN r.outcome.gas_used ELSE FlatTxGas),
                Append(trace, [tx |-> transactions[i], before |-> ws,
                               after |-> r.ws, ok |-> r.ok, err |-> r.err,
                               outcome |-> r.outcome, answer |-> answers[i]]))

\* A mutant of CheckHeader: any number and any parent are accepted.
CheckHeaderUnlinked(chain, block) ==
    IF block.hash # NoHash /\ ~is_valid_proof(block, PowCheckDifficulty)
    THEN "Invalid proof of work"
    ELSE "Ok"

\* The checks add_block makes before the replay: "Ok" or the error.
CheckHeader(chain, block) ==
    IF block.number # get_latest_block(chain).number + 1 THEN "Invalid block number"
    ELSE IF block.parent_hash # get_latest_block(chain).hash THEN "Invalid parent hash"
    ELSE IF block.hash # NoHash /\ ~is_valid_proof(block, PowCheckDifficulty)
    THEN "Invalid proof of work"
    ELSE "Ok"

\* A mutant of Finalise: gas_used is left as Block::new set it.
FinaliseGasless(block, total_gas_used) ==
    IF block.hash = NoHash THEN set_hash(block) ELSE block

\* A mutant of Finalise: a block that arrives without hash is pushed as it is.
FinaliseUnsealed(block, total_gas_used) == [block EXCEPT !.gas_used = total_gas_used]

\* The end of add_block: gas_used is written, a block without hash is sealed.
Finalise(block, total_gas_used) ==
    LET counted == [block EXCEPT !.gas_used = total_gas_used]
    IN IF counted.hash = NoHash THEN set_hash(counted) ELSE counted

\* A mutant of PushReplayed: a failed replay restores the state it started from.
PushReplayedRollback(chain, block, replayed) ==
    IF ~replayed.ok
    THEN [ok |-> FALSE, err |-> replayed.err, blocks |-> chain,
          state |-> replayed.trace[1].before, trace |-> replayed.trace]
    ELSE [ok |-> TRUE, err |-> "Ok",
          blocks |-> Append(chain, Finalise(block, replayed.gas)),
          state |-> replayed.ws, trace |-> replayed.trace]

\* A mutant of PushReplayed: the new block takes the place of the latest.
PushReplayedInPlace(chain, block, replayed) ==
    IF ~replayed.ok
    THEN [ok |-> FALSE, err |-> replayed.err, blocks |-> chain,
          state |-> replayed.ws, trace |-> replayed.trace]
    ELSE [ok |-> TRUE, err |-> "Ok",
          blocks |-> [chain EXCEPT ![Len(chain)] = Finalise(block, replayed.gas)],
          state |-> replayed.ws, trace |-> replayed.trace]

\* add_block once the loop has ended with `replayed`: an error of a
\* transaction is returned as it is, what the transactions before it wrote
\* stays; otherwise the block is pushed.
PushReplayed(chain, block, replayed) ==
    IF ~replayed.ok
    THEN [ok |-> FALSE, err |-> replayed.err, blocks |-> chain,
          state |-> replayed.ws, trace |-> replayed.trace]
    ELSE [ok |-> TRUE, err |-> "Ok",
          blocks |-> Append(chain, Finalise(block, replayed.gas)),
          state |-> replayed.ws, trace |-> replayed.trace]

\* The header checks made after the replay, on its result.
CheckHeaderLate(chain, block, replayed) ==
    IF CheckHeader(chain, block) # "Ok"
    THEN [ok |-> FALSE, err |-> CheckHeader(chain, block), blocks |-> chain,
          state |-> replayed.ws, trace |-> << >>]
    ELSE PushReplayed(chain, block, replayed)

\* A mutant of add_block: the transactions are replayed before the header checks.
add_block_replay_first(chain, ws, block, answers) ==
    CheckHeaderLate(chain, block, Replay(ws, block.transactions, answers, 1, 0, << >>))

\* Blockchain::add_block: [ok, err, blocks, state, trace]
add_block(chain, ws, block, answers) ==
    IF CheckHeader(chain, block) # "Ok"
    THEN [ok |-> FALSE, err |-> CheckHeader(chain, block), blocks |-> chain,
          state |-> ws, trace |-> << >>]
    ELSE PushReplayed(chain, block, Replay(ws, block.transactions, answers, 1, 0, << >>))

\* deploy_contract_with_revm once execute_transaction has answered `executed`.
ReturnDeployed(chain, executed) ==
    [ok |-> executed.ok /\ executed.outcome # NoOutcome /\ executed.outcome.success,
     err |-> IF ~executed.ok THEN executed.err
             ELSE IF executed.outcome = NoOutcome
             THEN "Failed to execute deployment transaction"
             ELSE IF executed.outcome.success THEN "Ok" ELSE "Contract deployment failed",
     blocks |-> chain, state |-> executed.ws]

\* Blockchain::deploy_contract_with_revm: [ok, err, blocks, state]
deploy_contract_with_revm(chain, ws, deployer, bytecode, constructor_args, value, answer) ==
    ReturnDeployed(chain,
        execute_transaction(ws,
            TxSetHash(new_contract_deployment(deployer, bytecode \o constructor_args,
                                              value, get_nonce(ws, deployer))),
            answer))

\* call_contract_with_revm once execute_transaction has answered `executed`.
ReturnCalled(chain, executed) ==
    [ok |-> executed.ok /\ executed.outcome # NoOutcome,
     err |-> IF ~executed.ok THEN executed.err
             ELSE IF executed.outcome = NoOutcome THEN "Failed to execute contract call"
             ELSE "Ok",
     blocks |-> chain, state |-> executed.ws]

\* Blockchain::call_contract_with_revm: [ok, err, blocks, state]
call_contract_with_revm(chain, ws, caller, contract, calldata, value, answer) ==
    ReturnCalled(chain,
        execute_transaction(ws,
            TxSetHash(new_contract_call(caller, contract, calldata, value,
                                        get_nonce(ws, caller))),
            answer))

\* What view_contract_call returns once the executor has answered `viewed`;
\* the executor and what it committed to its own database are dropped.
ReturnViewed(chain, ws, viewed) ==
    [ok |-> viewed.ok, err |-> viewed.err, return_data |-> viewed.return_data,
     blocks |-> chain, state |-> ws]

\* A mutant of view_contract_call: what the executor committed is read back.
view_contract_call_committing(chain, ws, caller, contract, calldata, answer) ==
    ReturnViewed(chain,
                 IF answer.kind \in {"Success", "Revert"}
                 THEN save_state_to_world(ws, new_contract_call(caller, contract, calldata,
                                                                0, 0), answer)
                 ELSE ws,
                 view_call(answer))

\* Blockchain::view_contract_call: [ok, err, return_data, blocks, state]
view_contract_call(chain, ws, caller, contract, calldata, answer) ==
    ReturnViewed(chain, ws, view_call(answer))

ValidateEarlyBlocks == 2       \* validate_chain: the numbers checked at the lower difficulty
ValidateEarlyDifficulty == 2
ValidateLateDifficulty == 3

\* The loop of validate_chain from the i-th block on: "Ok" or the error.
RECURSIVE ValidateFrom(_, _)
ValidateFrom(chain, i) ==
    IF i > Len(chain) THEN "Ok"
    ELSE IF chain[i].number # chain[i - 1].number + 1 THEN "Invalid block number"
    ELSE IF chain[i].parent_hash # chain[i - 1].hash THEN "Invalid parent hash"
    ELSE IF ~is_valid_proof(chain[i],
                            IF chain[i].number <= ValidateEarlyBlocks
                            THEN ValidateEarlyDifficulty ELSE ValidateLateDifficulty)
    THEN "Invalid proof of work"
    ELSE ValidateFrom(chain, i + 1)

\* Blockchain::validate_chain: "Ok" or the error.
validate_chain(chain) ==
    IF chain = << >> THEN "Empty blockchain"
    ELSE IF chain[1].number # 0 \/ chain[1].parent_hash # ZeroHash
    THEN "Invalid genesis block"
    ELSE ValidateFrom(chain, 2)

ChainId == 1337

\* Account::is_contract
account_is_contract(account) == account.code # << >>

\* The loops of get_stats over the blocks from the i-th on.
RECURSIVE CountTransactions(_, _)
CountTransactions(chain, i) ==
    IF i > Len(chain) THEN 0
    ELSE Len(chain[i].transactions) + CountTransactions(chain, i + 1)

RECURSIVE SumGasUsed(_, _)
SumGasUsed(chain, i) ==
    IF i > Len(chain) THEN 0 ELSE chain[i].gas_used + SumGasUsed(chain, i + 1)

\* Blockchain::get_total_supply
RECURSIVE get_total_supply_from(_, _)
get_total_supply_from(chain, i) ==
    IF i > Len(chain) THEN 0
    ELSE (IF chain[i].number > 0 /\ chain[i].transactions # << >>
             /\ chain[i].transactions[1].from = ZeroAddress
          THEN chain[i].transactions[1].value ELSE 0)
         + get_total_supply_from(chain, i + 1)

get_total_supply(chain) == get_total_supply_from(chain, 1)

\* Blockchain::get_stats
get_stats(chain, ws) ==
    [block_count |-> Len(chain),
     transaction_count |-> CountTransactions(chain, 1),
     total_gas_used |-> SumGasUsed(chain, 1),
     total_supply |-> get_total_supply(chain),
     contract_count |->
         Cardinality({a \in DOMAIN ws.accounts : account_is_contract(ws.accounts[a])}),
     chain_id |-> ChainId]

----------------------------------------------------------------------------
(* miner.rs *)

\* A mutant of create_coinbase_transaction: the reward goes to the zero address.
create_coinbase_to_nobody(miner_address) ==
    TxSetHash(Transaction(ZeroAddress, ZeroAddress, BlockReward, <<66, 114>>, 0, 0, 0,
                          "Transfer"))

\* Miner::create_coinbase_transaction
create_coinbase_transaction(miner_address) ==
    TxSetHash(Transaction(ZeroAddress, miner_address, BlockReward, <<66, 114>>, 0, 0, 0,
                          "Transfer"))

\* What mine_block returns once add_block has answered `added`.
ReturnMined(sealed, added) ==
    [ok |-> added.ok, err |-> added.err, blocks |-> added.blocks,
     state |-> added.state, trace |-> added.trace, block |-> sealed.block,
     attempts |-> sealed.attempts]

\* mine_block once Block::mine has left `sealed`; a panic of Block::mine
\* unwinds before the chain is touched.
AddMined(chain, ws, sealed, answers) ==
    IF sealed.panicked
    THEN [ok |-> FALSE, err |-> "Mining took too long", blocks |-> chain, state |-> ws,
          trace |-> << >>, block |-> sealed.block, attempts |-> sealed.attempts]
    ELSE ReturnMined(sealed, add_block(chain, ws, sealed.block, <<NoOutcome>> \o answers))

\* Miner::mine_block: [ok, err, blocks, state, trace, block, attempts]
mine_block(chain, ws, miner_address, transactions, difficulty, now, answers) ==
    AddMined(chain, ws,
             mine(BlockNew(get_latest_block(chain).number + 1,
                           get_latest_block(chain).hash,
                           <<create_coinbase_transaction(miner_address)>> \o transactions,
                           now),
                  difficulty),
             answers)

----------------------------------------------------------------------------
(* rpc_server.rs: eth_sendTransaction, the handler run on its own *)

NoBlock == BlockNew(0, ZeroHash, << >>, 0)   \* no block

\* The server's shared cells when no specification drives it.
NoRpc == [mutex |-> 0]

RpcDifficulty == 2      \* the difficulty mine_pending_transactions mines at

\* parse_address on the "from" parameter: a parameter that is absent or is
\* no 40-digit hex string reads as Address::zero().
ParseFrom(param) == IF param = NoAddress THEN ZeroAddress ELSE param

\* The tx_type handle_send_transaction derives from the parameters.
SendTxType(to, data) ==
    IF to = NoAddress THEN "ContractDeployment"
    ELSE IF data # << >> THEN "ContractCall"
    ELSE "Transfer"

\* The transaction handle_send_transaction builds and pushes to the pool.
SendTransactionTx(ws, from_param, to, value, data, gas_limit, gas_price) ==
    TxSetHash(new_with_gas(ParseFrom(from_param), to, value, data, gas_limit, gas_price,
                           get_nonce(ws, ParseFrom(from_param)), SendTxType(to, data)))

\* mine_pending_transactions: the pool is drained and, if it held anything,
\* mined into one block; the result of mining is printed, not returned.
mine_pending_transactions(chain, ws, miner_address, pending, now, answers) ==
    IF pending = << >>
    THEN [ok |-> TRUE, err |-> "Ok", blocks |-> chain, state |-> ws, trace |-> << >>,
          block |-> NoBlock, attempts |-> 0]
    ELSE mine_block(chain, ws, miner_address, pending, RpcDifficulty, now, answers)

----------------------------------------------------------------------------
(* The chain driven by its callers: add_block and Miner::mine_block *)

Fund == 5 * TransferGas          \* a balance that pays for two Transfers
Timestamps == {1}               \* what SystemTime::now() may read

NoSnapshot == [accounts |-> NoAccounts, state_root |-> NoHash]
NoMined == [block |-> NoBlock, attempts |-> 0, panicked |-> FALSE, difficulty |-> 0,
            input |-> NoBlock]

\* The transactions callers offer.  MintTx comes from the zero address, as
\* the coinbase Miner builds does, but any caller of add_block can build one.
MintTx == TxSetHash(new_with_gas(ZeroAddress, 1, Fund, << >>, 0, 0, 0, "Transfer"))
TransferTx(n) == TxSetHash(new_transfer(1, 2, 100, n))
SelfTx == TxSetHash(new_transfer(1, 1, 100, 0))
NoRecipientTx ==
    TxSetHash(new_with_gas(1, NoAddress, 100, << >>, TransferGas, DefaultGasPrice, 0,
                           "Transfer"))
NoGasTx == TxSetHash(new_with_gas(1, 2, 100, << >>, 0, DefaultGasPrice, 0, "Transfer"))
DeployTx ==
    TxSetHash(new_with_gas(1, NoAddress, 0, <<96>>, TransferGas, DefaultGasPrice, 0,
                           "ContractDeployment"))

Transfers == {TransferTx(n) : n \in 0..MaxNonce} \cup {SelfTx}
TxPool == {MintTx, NoRecipientTx, NoGasTx, DeployTx} \cup Transfers

TxLists ==
    {<< >>} \cup {<<t>> : t \in TxPool}
    \cup {<<MintTx, t>> : t \in Transfers \cup {DeployTx}}
    \cup {<<TransferTx(0), TransferTx(n)>> : n \in 0..MaxNonce}

\* The lists offered in blocks that are sealed by the caller or ill-linked.
ShortTxLists == {<<MintTx>>}

\* A Transfer of user 1 that the reward of one block pays for.
CheapTx == TxSetHash(new_with_gas(1, 2, 100, << >>, 1, 1, 0, "Transfer"))

\* The lists offered to Miner::mine_block.
MinerTxLists == {<< >>, <<TransferTx(0)>>, <<CheapTx>>}

\* Whether execute_transaction hands tx to the executor.
IsVmTx(tx) ==
    /\ ~(tx.from = ZeroAddress /\ tx.to # NoAddress)
    /\ validate(tx) = "Ok"
    /\ (is_contract_deployment(tx) \/ is_contract_call(tx))

\* One answer of revm per transaction that reaches it.
AnswersFor(transactions) ==
    {f \in [1..Len(transactions) -> VmAnswers \cup {NoOutcome}] :
        \A i \in 1..Len(transactions) : (f[i] = NoOutcome) <=> ~IsVmTx(transactions[i])}

\* The blocks a caller of add_block may pass when the chain is `chain`:
\* Block::new on the latest block, as the tests build them, and blocks with
\* another number or parent, or sealed by the caller (set_hash, mine).
BlockInputs(chain) ==
    LET latest == get_latest_block(chain)
        unsealed == {BlockNew(latest.number + 1, latest.hash, l, now) :
                        l \in TxLists, now \in Timestamps}
        headers == {BlockNew(n, p, l, now) :
                        n \in {latest.number + 1, latest.number + 2},
                        p \in {latest.hash, JunkHash},
                        l \in ShortTxLists, now \in Timestamps}
    IN unsealed \cup headers
       \cup {set_hash(b) : b \in headers}
       \cup {mine(b, PowCheckDifficulty).block :
                b \in {h \in headers : h.parent_hash = latest.hash}}

Init ==
    /\ \E now \in Timestamps :
          /\ ~genesis(now).panicked   \* a panic leaves no Blockchain behind
          /\ blocks = <<genesis(now).block>>
    /\ state = NewWorldState
    /\ last = [op |-> "new", ok |-> TRUE, err |-> "Ok", block |-> NoBlock,
               pre_blocks |-> << >>, pre_state |-> NewWorldState, trace |-> << >>,
               returned |-> NoBlock, changes |-> 0]
    /\ snap = NoSnapshot
    /\ base = NewWorldState
    /\ blk = NoBlock
    /\ mined = NoMined
    /\ rpc = NoRpc

\* The calls so far that changed the chain, the call with result r included.
Changes(r) ==
    IF r.blocks # blocks \/ r.state # state THEN last.changes + 1 ELSE last.changes

\* Whether the last call left the chain other than it found it.  A call that
\* changed nothing leaves the program where its predecessor state had it,
\* and that state takes every call: calls are taken from fresh states only.
Fresh == blocks # last.pre_blocks \/ state # last.pre_state

\* One call of add_block with a block of `inputs`, the calls that changed
\* the chain counted up to `limit`.
AddBlockFrom(inputs, limit) ==
    /\ Fresh
    /\ \E block \in inputs :
       \E answers \in AnswersFor(block.transactions) :
       \E r \in {add_block(blocks, state, block, answers)} :
          /\ Changes(r) <= limit
          /\ blocks' = r.blocks
          /\ state' = r.state
          /\ last' = [op |-> "add_block", ok |-> r.ok, err |-> r.err, block |-> block,
                      pre_blocks |-> blocks, pre_state |-> state, trace |-> r.trace,
                      returned |-> NoBlock, changes |-> Changes(r)]
    /\ UNCHANGED <<snap, base, blk, mined, rpc>>

AddBlock == AddBlockFrom(BlockInputs(blocks), MaxChanges)

\* One call of Miner::mine_block, the calls that changed the chain counted
\* up to `limit`.
MineBlockWithin(limit) ==
    /\ Fresh
    /\ \E miner_address \in Users, transactions \in MinerTxLists,
          difficulty \in {2}, now \in Timestamps :
       \E answers \in AnswersFor(transactions) :
       \E r \in {mine_block(blocks, state, miner_address, transactions, difficulty,
                          now, answers)} :
          /\ Changes(r) <= limit
          /\ blocks' = r.blocks
          /\ state' = r.state
          /\ last' = [op |-> "mine_block", ok |-> r.ok, err |-> r.err,
                      block |-> r.block, pre_blocks |-> blocks, pre_state |-> state,
                      trace |-> r.trace, returned |-> r.block,
                      changes |-> Changes(r),
                      miner |-> miner_address, txs |-> transactions]
    /\ UNCHANGED <<snap, base, blk, mined, rpc>>

MineBlock == MineBlockWithin(MaxChanges)

\* The block handle_get_block_by_number serves for a block number: both
\* branches of its test for "latest" read the latest block.
handle_get_block_by_number(chain, number) ==
    [found |-> TRUE, block |-> get_latest_block(chain)]

\* The requests eth_sendTransaction is sent: [from, to, value, data], with
\* the default gas and gas price; NoAddress is a parameter left out.
SendParams ==
    {[from |-> NoAddress, to |-> 2, value |-> 100, data |-> << >>],
     [from |-> 1, to |-> 2, value |-> 100, data |-> << >>]}

\* The miner the server was constructed with.
RpcMiner == Min(Users)

\* handle_send_transaction with auto-mining on, as RpcServer::new sets it,
\* and no other request in flight: the pool holds the one transaction.
SendTransaction ==
    /\ Fresh
    /\ \E params \in SendParams, miner_address \in {RpcMiner}, now \in Timestamps :
       \E tx \in {SendTransactionTx(state, params.from, params.to, params.value,
                                    params.data, TransferGas, DefaultGasPrice)} :
       \E answers \in AnswersFor(<<tx>>) :
       \E r \in {mine_pending_transactions(blocks, state, miner_address, <<tx>>, now,
                                           answers)} :
          /\ Changes(r) <= MaxChanges
          /\ blocks' = r.blocks
          /\ state' = r.state
          /\ last' = [op |-> "eth_sendTransaction", ok |-> r.ok, err |-> r.err,
                      block |-> r.block, pre_blocks |-> blocks, pre_state |-> state,
                      trace |-> r.trace, returned |-> r.block,
                      changes |-> Changes(r),
                      miner |-> miner_address, txs |-> <<tx>>]
    /\ UNCHANGED <<snap, base, blk, mined, rpc>>

\* One call of a contract method that leaves the result r.
ContractCall(op, r) ==
    /\ Fresh
    /\ Changes(r) <= MaxChanges
    /\ blocks' = r.blocks
    /\ state' = r.state
    /\ last' = [op |-> op, ok |-> r.ok, err |-> r.err, block |-> NoBlock,
                pre_blocks |-> blocks, pre_state |-> state, trace |-> << >>,
                returned |-> NoBlock, changes |-> Changes(r)]
    /\ UNCHANGED <<snap, base, blk, mined, rpc>>

DeployContractWithRevm ==
    \E answer \in VmAnswers :
    \E r \in {deploy_contract_with_revm(blocks, state, Min(Users), <<96>>, << >>, 0,
                                         answer)} :
        ContractCall("deploy_contract_with_revm", r)

CallContractWithRevm ==
    \E answer \in VmAnswers :
    \E r \in {call_contract_with_revm(blocks, state, Min(Users), Max(Users), <<96>>, 0,
                                       answer)} :
        ContractCall("call_contract_with_revm", r)

\* view_contract_call, whatever the executor answers.
ViewContractCall ==
    /\ Fresh
    /\ \E caller \in {Min(Users)}, contract \in {Max(Users)}, calldata \in {<<96>>},
          answer \in VmAnswers :
       \E r \in {view_contract_call(blocks, state, caller, contract, calldata, answer)} :
          /\ blocks' = r.blocks
          /\ state' = r.state
          /\ last' = [op |-> "view_contract_call", ok |-> r.ok, err |-> r.err,
                      block |-> NoBlock, pre_blocks |-> blocks, pre_state |-> state,
                      trace |-> << >>, returned |-> NoBlock, changes |-> Changes(r),
                      caller |-> caller, return_data |-> r.return_data]
    /\ UNCHANGED <<snap, base, blk, mined, rpc>>

\* The block numbers asked for: the first, the latest and the one after.
BlockNumbers == {0, Len(blocks) - 1, Len(blocks)}

\* One query for a block by its number, answered with `r`.
BlockQuery(op, number, r) ==
    /\ Fresh
    /\ last' = [op |-> op, ok |-> r.found, err |-> "Ok", block |-> NoBlock,
                pre_blocks |-> blocks, pre_state |-> state, trace |-> << >>,
                returned |-> r.block, changes |-> last.changes, number |-> number]
    /\ UNCHANGED <<blocks, state, snap, base, blk, mined, rpc>>

GetBlockByNumber ==
    \E number \in BlockNumbers :
        BlockQuery("get_block_by_number", number, get_block_by_number(blocks, number))

GetBlockByNumberRequest ==
    \E number \in BlockNumbers :
        BlockQuery("eth_getBlockByNumber", number,
                   handle_get_block_by_number(blocks, number))

Next ==
    \/ AddBlock \/ MineBlock \/ SendTransaction \/ ViewContractCall
    \/ DeployContractWithRevm \/ CallContractWithRevm
    \/ GetBlockByNumber \/ GetBlockByNumberRequest

Spec == Init /\ [][Next]_vars

----------------------------------------------------------------------------
(* Properties of the chain, stated on Spec.  `last` records the last call: *)
(* its input, its result, the chain before it, and one trace entry per     *)
(* transaction execute_transaction ran.                                    *)

Entries == {last.trace[i] : i \in 1..Len(last.trace)}

\* A Transfer from a signer that execute_transaction ran to success.
IsTransferSuccess(e) ==
    e.ok /\ e.tx.tx_type = "Transfer" /\ e.tx.from # ZeroAddress

GasCharged(tx) == tx.gas_price * tx.gas_limit

\* C1: blocks[0] has number 0 and the zero parent hash; every later block
\* carries the number after its predecessor's and its predecessor's hash as
\* parent hash; hence the block at index i has number i.  (Sequences count
\* from 1: blocks[i] here is blocks[i-1] of the program.)
C1_ChainLinked ==
    /\ blocks[1].number = 0
    /\ blocks[1].parent_hash = ZeroHash
    /\ \A i \in 2..Len(blocks) :
          /\ blocks[i].number = blocks[i - 1].number + 1
          /\ blocks[i].parent_hash = blocks[i - 1].hash
    /\ \A i \in 1..Len(blocks) : blocks[i].number = i - 1

\* Two blocks were appended, one by add_block and one by the miner.
C1_Witness ==
    /\ Len(blocks) = 3
    /\ last.op = "mine_block"
    /\ blocks[2].transactions # << >>
    /\ blocks[2].transactions[1].from # ZeroAddress

\* C2: add_block fails and leaves the block list and the world state as
\* they were when the number is not latest.number + 1, when the parent hash
\* is not the latest hash, or when a hash is set that is no valid proof at
\* difficulty 1; the checks are made in that order, and no transaction is
\* run before them.
C2_HeaderErrors ==
    last.op = "add_block" =>
        LET latest == get_latest_block(last.pre_blocks)
            bad_number == last.block.number # latest.number + 1
            bad_parent == last.block.parent_hash # latest.hash
            bad_pow == /\ last.block.hash # NoHash
                       /\ ~is_valid_proof(last.block, PowCheckDifficulty)
        IN /\ (bad_number \/ bad_parent \/ bad_pow) =>
                  /\ ~last.ok
                  /\ blocks = last.pre_blocks
                  /\ state = last.pre_state
                  /\ last.trace = << >>
           /\ bad_number => last.err = "Invalid block number"
           /\ (~bad_number /\ bad_parent) => last.err = "Invalid parent hash"
           /\ (~bad_number /\ ~bad_parent /\ bad_pow) =>
                  last.err = "Invalid proof of work"

\* A block with a wrong number, a wrong parent and transactions was refused
\* for its number.
C2_Witness ==
    /\ last.op = "add_block"
    /\ last.err = "Invalid block number"
    /\ last.block.parent_hash # get_latest_block(last.pre_blocks).hash
    /\ last.block.transactions # << >>

\* C3 (as stated): a Transfer run to success raises the sender's nonce by
\* exactly 1.
C3_NonceByOne ==
    \A e \in Entries :
        IsTransferSuccess(e) =>
            get_nonce(e.after, e.tx.from) = get_nonce(e.before, e.tx.from) + 1

\* C4 (as stated): after(from) + after(to) + gas_charged
\*                 = before(from) + before(to) + value.
C4_Original ==
    \A e \in Entries :
        (e.ok /\ e.tx.tx_type = "Transfer") =>
            get_balance(e.after, e.tx.from) + get_balance(e.after, e.tx.to)
                + GasCharged(e.tx)
            = get_balance(e.before, e.tx.from) + get_balance(e.before, e.tx.to)
                + e.tx.value

\* C4 (amended): a successful Transfer from a signer moves the value and
\* burns the gas: with from # to, after(from) + after(to) + gas_charged =
\* before(from) + before(to), each side moving by the value; with from = to,
\* after(from) + gas_charged = before(from).  A Transfer from the zero
\* address mints: after(to) = before(to) + value.
C4_Amended ==
    \A e \in Entries :
        (e.ok /\ e.tx.tx_type = "Transfer") =>
            LET from == e.tx.from
                to == e.tx.to
                gas == GasCharged(e.tx)
            IN IF from = ZeroAddress
               THEN get_balance(e.after, to) = get_balance(e.before, to) + e.tx.value
               ELSE IF from = to
               THEN get_balance(e.after, from) + gas = get_balance(e.before, from)
               ELSE /\ get_balance(e.after, from) + get_balance(e.after, to) + gas
                       = get_balance(e.before, from) + get_balance(e.before, to)
                    /\ get_balance(e.after, to) = get_balance(e.before, to) + e.tx.value

\* A Transfer of a positive value between two accounts succeeded.
C4_Witness ==
    \E e \in Entries :
        /\ IsTransferSuccess(e)
        /\ e.tx.from # e.tx.to
        /\ e.tx.value > 0
        /\ GasCharged(e.tx) > 0

Accepted(chain, sender) ==
    Cardinality({ij \in (1..Len(chain)) \X (1..MaxNonce + 2) :
                    /\ ij[2] <= Len(chain[ij[1]].transactions)
                    /\ chain[ij[1]].transactions[ij[2]].tx_type = "Transfer"
                    /\ chain[ij[1]].transactions[ij[2]].from = sender})

\* Whether tx is what Transaction::new_transfer and set_hash build.
BuiltByNewTransfer(tx) ==
    /\ tx.to # NoAddress
    /\ tx = TxSetHash(new_transfer(tx.from, tx.to, tx.value, tx.nonce))

\* A block as the chain tests build it: Block::new on the latest block,
\* with Transfers of new_transfer numbered by the sender's accepted ones.
TestStyleBlock(chain, block) ==
    /\ block.number = get_latest_block(chain).number + 1
    /\ block.parent_hash = get_latest_block(chain).hash
    /\ block.hash = NoHash
    /\ \A i \in 1..Len(block.transactions) :
          LET tx == block.transactions[i]
          IN /\ BuiltByNewTransfer(tx)
             /\ tx.from # ZeroAddress
             /\ tx.nonce = Accepted(chain, tx.from)
                           + Cardinality({j \in 1..(i - 1) :
                                             block.transactions[j].from = tx.from})

\* C6 (as stated): add_block accepts every test-style block and the block
\* count grows by exactly 1.
C6_TestBlocksAccepted ==
    (last.op = "add_block" /\ TestStyleBlock(last.pre_blocks, last.block)) =>
        /\ last.ok
        /\ Len(blocks) = Len(last.pre_blocks) + 1

\* C7 (as stated): the state root of the chain's world state is the digest
\* of its accounts.
C7_RootCommitted == state.state_root = update_state_root(state).state_root

----------------------------------------------------------------------------
(* A WorldState driven by its callers: the mutating methods, snapshot and  *)
(* restore_snapshot.  `snap` is the snapshot the caller holds, `base` the  *)
(* state it was taken from.                                                *)

Amounts == {0, 5}
NonceValues == {0, MaxNonce}
StorageKeys == {1, 2}
StorageValues == {0, 7}
Codes == {<< >>, <<96>>}
AccountInputs == {NewAccount, new_contract(5, <<96>>)}
OtherStates == {NewWorldState, create_account(NewWorldState, 2, new_contract(5, <<96>>))}

InitWorld ==
    /\ state = NewWorldState
    /\ snap = NoSnapshot
    /\ base = NewWorldState
    /\ last = [op |-> "new", ok |-> TRUE, pre_state |-> NewWorldState, changes |-> 0]
    /\ blocks = << >>
    /\ blk = NoBlock
    /\ mined = NoMined
    /\ rpc = NoRpc

\* One call of a method on the state: the state it leaves and its record.
Call(op, ok, ws) ==
    /\ last.changes < MaxOps
    /\ state' = ws
    /\ last' = [op |-> op, ok |-> ok, pre_state |-> state, changes |-> last.changes + 1]
    /\ UNCHANGED <<blocks, blk, mined, rpc>>

Mutate(op, ok, ws) == Call(op, ok, ws) /\ UNCHANGED <<snap, base>>

CreateAccount ==
    \E a \in Users, account \in AccountInputs :
        Mutate("create_account", TRUE, create_account(state, a, account))

DeleteAccount ==
    \E a \in Users : Mutate("delete_account", TRUE, delete_account(state, a))

SetBalance ==
    \E a \in Users, v \in Amounts : Mutate("set_balance", TRUE, set_balance(state, a, v))

SetNonce ==
    \E a \in Users, n \in NonceValues : Mutate("set_nonce", TRUE, set_nonce(state, a, n))

IncrementNonce ==
    \E a \in Users : Mutate("increment_nonce", TRUE, increment_nonce(state, a))

Transfer ==
    \E from \in Users, to \in Users, amount \in Amounts :
    \E r \in {transfer(state, from, to, amount)} :
        /\ last.changes < MaxOps
        /\ state' = r.ws
        /\ last' = [op |-> "transfer", ok |-> r.ok, pre_state |-> state,
                    changes |-> last.changes + 1, err |-> r.err,
                    from |-> from, to |-> to, amount |-> amount]
        /\ UNCHANGED <<blocks, snap, base, blk, mined, rpc>>

DeployContract ==
    \E deployer \in Users, a \in Users, code \in Codes :
        LET r == deploy_contract(state, deployer, a, code)
        IN Mutate("deploy_contract", r.ok, r.ws)

SetContractCode ==
    \E a \in Users, code \in Codes :
        Mutate("set_contract_code", TRUE, set_contract_code(state, a, code))

SetStorage ==
    \E a \in Users, k \in StorageKeys, v \in StorageValues :
        Mutate("set_storage", TRUE, set_storage(state, a, k, v))

ClearStorage ==
    \E a \in Users : Mutate("clear_storage", TRUE, clear_storage(state, a))

RemoveEmptyAccounts ==
    Mutate("remove_empty_accounts", TRUE, remove_empty_accounts(state))

ApplyChanges ==
    \E other \in OtherStates : Mutate("apply_changes", TRUE, apply_changes(state, other))

Snapshot ==
    /\ Call("snapshot", TRUE, state)
    /\ snap' = snapshot(state)
    /\ base' = state

\* restore_snapshot takes the snapshot by value: the caller's is moved.
RestoreSnapshot ==
    /\ snap # NoSnapshot
    /\ Call("restore_snapshot", TRUE, restore_snapshot(state, snap))
    /\ snap' = NoSnapshot
    /\ UNCHANGED base

NextWorld ==
    \/ CreateAccount \/ DeleteAccount \/ SetBalance \/ SetNonce \/ IncrementNonce
    \/ Transfer \/ DeployContract \/ SetContractCode \/ SetStorage \/ ClearStorage
    \/ RemoveEmptyAccounts \/ ApplyChanges \/ Snapshot \/ RestoreSnapshot

SpecWorld == InitWorld /\ [][NextWorld]_vars

\* The orders in which a HashMap may hand out the keys S.
Orders(S) ==
    {f \in [1..Cardinality(S) -> S] : \A x \in S : \E i \in 1..Cardinality(S) : f[i] = x}

\* C8: after any sequence of WorldState methods the state root is the digest
\* of the accounts map, whatever order the map iterates in, so equal maps
\* have equal roots; the root is zero when the map is empty and not zero
\* when it is not.
C8_RootOfAccountsAlone ==
    /\ \A order \in Orders(DOMAIN state.accounts) :
          state.state_root = RootOf(state.accounts, order)
    /\ (DOMAIN state.accounts = {}) <=> (state.state_root = ZeroHash)

\* Two accounts are in the map, and the last call changed one of them.
C8_Witness ==
    /\ Cardinality(DOMAIN state.accounts) = 2
    /\ last.op \in {"transfer", "set_storage", "set_nonce", "apply_changes"}
    /\ state.accounts # last.pre_state.accounts

\* C9: restore_snapshot brings back the accounts and the state root of the
\* state the snapshot was taken from, whatever was done in between; the
\* snapshot held is the one taken, whatever was done to the state since.
C9_SnapshotRoundTrip ==
    /\ snap # NoSnapshot => snap = snapshot(base)
    /\ last.op = "restore_snapshot" =>
          /\ state.accounts = base.accounts
          /\ state.state_root = base.state_root

\* A state that had moved away from the one snapshotted was restored.
C9_Witness ==
    /\ last.op = "restore_snapshot"
    /\ last.pre_state.accounts # base.accounts
    /\ last.pre_state.state_root # base.state_root
    /\ DOMAIN base.accounts # {}

----------------------------------------------------------------------------
(* A Block in the hands of a caller: set_hash and mine.  `blk` is the      *)
(* block, `mined` records the last call of mine: the block it was given,   *)
(* the difficulty, and what the loop left.                                 *)

BlocksToMine ==
    {[BlockNew(number, parent_hash, transactions, now) EXCEPT !.nonce = nonce] :
        number \in 0..2, parent_hash \in {ZeroHash, JunkHash},
        transactions \in {<< >>, <<TransferTx(0)>>, <<MintTx, TransferTx(1)>>},
        now \in {1, 2}, nonce \in {0, 3}}

InitMine ==
    /\ blk \in BlocksToMine
    /\ mined = NoMined
    /\ blocks = << >>
    /\ state = NewWorldState
    /\ snap = NoSnapshot
    /\ base = NewWorldState
    /\ last = [op |-> "new", ok |-> TRUE, changes |-> 0]
    /\ rpc = NoRpc

SetHash ==
    /\ blk.hash = NoHash
    /\ blk' = set_hash(blk)
    /\ UNCHANGED <<blocks, state, last, snap, base, mined, rpc>>

\* mine works on the block in place: a panic leaves it as the loop had it.
Mine ==
    /\ mined = NoMined
    /\ \E difficulty \in 0..MaxDifficulty :
          LET r == mine(blk, difficulty)
          IN /\ blk' = r.block
             /\ mined' = [block |-> r.block, attempts |-> r.attempts,
                          panicked |-> r.panicked, difficulty |-> difficulty,
                          input |-> blk]
    /\ UNCHANGED <<blocks, state, last, snap, base, rpc>>

NextMine == SetHash \/ Mine

SpecMine == InitMine /\ [][NextMine]_vars

\* C10: when mine(d) returns, the block's hash is set and is calculate_hash
\* of the block at its final nonce, is_valid_proof(d) holds, and every field
\* but nonce and hash is as it was.
C10_MineResult ==
    (mined # NoMined /\ ~mined.panicked) =>
        /\ mined.block.hash # NoHash
        /\ mined.block.hash = calculate_hash(mined.block)
        /\ is_valid_proof(mined.block, mined.difficulty)
        /\ [mined.block EXCEPT !.nonce = 0, !.hash = NoHash]
           = [mined.input EXCEPT !.nonce = 0, !.hash = NoHash]

\* mine returned after several attempts at a difficulty that asks for zeros.
C10_Witness ==
    /\ mined # NoMined
    /\ ~mined.panicked
    /\ mined.difficulty >= 1
    /\ mined.attempts >= 3
    /\ mined.block.nonce = mined.input.nonce + mined.attempts - 1

\* C11 (as stated): mine never returns an attempt count above the cap: it
\* returns a count of at most MaxAttempts or it aborts.
C11_AttemptCap ==
    (mined # NoMined /\ ~mined.panicked) => mined.attempts <= MaxAttempts

\* A transaction execute_transaction takes through the coinbase branch.
IsCoinbase(tx) == tx.from = ZeroAddress /\ tx.to # NoAddress

\* C12: a transaction from the zero address with a recipient succeeds
\* without outcome, whatever its shape; the recipient's account, made if it
\* was not there, gains exactly the value and is otherwise as it was (its
\* nonce too); every other account is as it was, so nothing is charged.
C12_CoinbaseCredit ==
    \A e \in Entries :
        IsCoinbase(e.tx) =>
            LET to == e.tx.to
                was == get_account_mut(e.before.accounts, to)
            IN /\ e.ok
               /\ e.err = "Ok"
               /\ e.outcome = NoOutcome
               /\ DOMAIN e.after.accounts = DOMAIN e.before.accounts \cup {to}
               /\ e.after.accounts[to] = [was[to] EXCEPT !.balance = @ + e.tx.value]
               /\ \A a \in DOMAIN e.before.accounts \ {to} :
                     e.after.accounts[a] = e.before.accounts[a]

\* A mint of ill shape (no gas) was credited to an account that had a nonce,
\* next to another account.
C12_Witness ==
    \E e \in Entries :
        /\ IsCoinbase(e.tx)
        /\ validate(e.tx) # "Ok"
        /\ e.tx.value > 0
        /\ get_nonce(e.before, e.tx.to) > 0
        /\ Cardinality(DOMAIN e.before.accounts) >= 2

\* The last call went through Miner::mine_block and appended a block.
MinedOk == last.op \in {"mine_block", "eth_sendTransaction"} /\ last.ok

\* C13 (as stated): in a block appended through Miner::mine_block the
\* coinbase is the first transaction and no later transaction is one the
\* coinbase branch takes.
C13_OnlyCoinbaseFirst ==
    MinedOk =>
        LET txs == get_latest_block(blocks).transactions
        IN /\ IsCoinbase(txs[1])
           /\ \A i \in 2..Len(txs) : ~IsCoinbase(txs[i])

\* Address a is the sender or the recipient of tx.
Party(tx, a) == tx.from = a \/ tx.to = a

\* C14: after a successful mine_block the chain is one block longer, the
\* new latest block has the next number and the previous latest hash as its
\* parent, its first transaction is the coinbase (from the zero address, to
\* the miner, of the block reward), and a miner that is no party to the
\* given transactions is richer by exactly the block reward.
C14_MinedBlock ==
    MinedOk =>
        LET prev == get_latest_block(last.pre_blocks)
            new == get_latest_block(blocks)
            coinbase == new.transactions[1]
        IN /\ Len(blocks) = Len(last.pre_blocks) + 1
           /\ new.number = prev.number + 1
           /\ new.parent_hash = prev.hash
           /\ coinbase.from = ZeroAddress
           /\ coinbase.to = last.miner
           /\ coinbase.value = BlockReward
           /\ (\A i \in 1..Len(last.txs) : ~Party(last.txs[i], last.miner))
                 => get_balance(state, last.miner)
                        = get_balance(last.pre_state, last.miner) + BlockReward

C14_Witness ==
    /\ MinedOk
    /\ last.txs # << >>
    /\ \A i \in 1..Len(last.txs) : ~Party(last.txs[i], last.miner)
    /\ get_balance(last.pre_state, last.miner) > 0
    /\ Len(last.pre_blocks) >= 2

\* C15 (as stated): the block a successful mine_block returns equals, field
\* for field and gas_used included, the latest block of the chain after
\* the call.
C15_ReturnedIsLatest ==
    MinedOk => last.returned = get_latest_block(blocks)

\* The last call appended a block.
Appended == last.op \in {"add_block", "mine_block", "eth_sendTransaction"} /\ last.ok

\* What add_block counts for one executed transaction: the gas of the VM
\* outcome when there is one, the flat 21000 otherwise.
CountedGas(e) == IF e.outcome # NoOutcome THEN e.outcome.gas_used ELSE FlatTxGas

RECURSIVE TraceGas(_, _)
TraceGas(trace, i) ==
    IF i > Len(trace) THEN 0 ELSE CountedGas(trace[i]) + TraceGas(trace, i + 1)

\* C16: the gas_used stored with an appended block is the sum, over its
\* transactions, of the VM outcome's gas_used or of the flat 21000 where the
\* transaction had no VM outcome (coinbase, plain transfer); and
\* get_stats().total_gas_used is the sum of the stored gas_used of all
\* blocks, so an appended block adds exactly its own sum to it.
C16_GasUsed ==
    /\ get_stats(blocks, state).total_gas_used
           = SumGasUsed(last.pre_blocks, 1)
             + (IF Appended THEN TraceGas(last.trace, 1) ELSE 0)
    /\ Appended =>
          /\ Len(last.trace) = Len(get_latest_block(blocks).transactions)
          /\ get_latest_block(blocks).gas_used = TraceGas(last.trace, 1)
          /\ \A i \in 1..Len(last.trace) :
                ~IsVmTx(last.trace[i].tx) => CountedGas(last.trace[i]) = FlatTxGas

C16_Witness ==
    /\ Appended
    /\ \E i, j \in 1..Len(last.trace) :
          /\ last.trace[i].outcome # NoOutcome
          /\ last.trace[j].outcome = NoOutcome
    /\ SumGasUsed(last.pre_blocks, 1) > 0

\* The last call was add_block, directly or through the miner, and failed
\* on one of the block's transactions.
FailedInReplay ==
    /\ last.op \in {"add_block", "mine_block", "eth_sendTransaction"}
    /\ ~last.ok
    /\ last.trace # << >>

\* C17: when add_block fails while replaying the transactions the block is
\* not appended and nothing is rolled back: the transactions before the
\* failing one were executed one after the other from the state before the
\* call, and the state after the call is the one they and the failing
\* transaction left.
C17_NoRollback ==
    FailedInReplay =>
        LET n == Len(last.trace)
        IN /\ blocks = last.pre_blocks
           /\ last.trace[1].before = last.pre_state
           /\ \A i \in 1..(n - 1) :
                 /\ last.trace[i].ok
                 /\ last.trace[i].tx = last.block.transactions[i]
                 /\ last.trace[i + 1].before = last.trace[i].after
           /\ ~last.trace[n].ok
           /\ last.err = last.trace[n].err
           /\ state = last.trace[n].after

C17_Witness ==
    /\ FailedInReplay
    /\ Len(last.trace) >= 2
    /\ last.trace[1].after # last.pre_state
    /\ state # last.pre_state
    /\ state = last.trace[Len(last.trace) - 1].after

\* Every block after the genesis is one add_block stored for a block that
\* came from Block::new unmined: nonce 0, sealed by add_block's own set_hash
\* once gas_used was written.
BuiltUnmined(chain) ==
    \A i \in 2..Len(chain) :
        chain[i].nonce = 0 /\ chain[i].hash = calculate_hash(chain[i])

\* C18 (as stated): a chain built from Blockchain::new by successful
\* add_block calls of unmined Block::new blocks passes validate_chain.
C18_UnminedChainValid ==
    BuiltUnmined(blocks) => validate_chain(blocks) = "Ok"

----------------------------------------------------------------------------
(* A Transaction in the hands of a caller: validate, calculate_hash and    *)
(* set_hash.  `last` holds the transaction, the last call and what it      *)
(* answered.                                                               *)

TxTypes == {"Transfer", "ContractDeployment", "ContractCall"}

\* The transactions new_with_gas can build, over a few values for each field.
TxInputs ==
    {new_with_gas(from, to, value, data, gas_limit, gas_price, nonce, tx_type) :
        from \in {ZeroAddress, 1}, to \in {NoAddress, ZeroAddress, 2},
        value \in {0, 100}, data \in {<< >>, <<0>>, <<96>>},
        gas_limit \in {0, TransferGas}, gas_price \in {0, DefaultGasPrice},
        nonce \in {0, 1}, tx_type \in TxTypes}

\* `hash` is a public field: a caller may have written anything to it.
InitTx ==
    /\ \E tx \in TxInputs, hash \in {NoHash, JunkHash} :
          last = [op |-> "new", tx |-> [tx EXCEPT !.hash = hash], result |-> "",
                  digest |-> NoHash]
    /\ blocks = << >>
    /\ state = NewWorldState
    /\ snap = NoSnapshot
    /\ base = NewWorldState
    /\ blk = NoBlock
    /\ mined = NoMined
    /\ rpc = NoRpc

TxValidate ==
    /\ last.op = "new"
    /\ last' = [last EXCEPT !.op = "validate", !.result = validate(last.tx)]
    /\ UNCHANGED <<blocks, state, snap, base, blk, mined, rpc>>

TxSetHashCall ==
    /\ last.op = "new"
    /\ last' = [last EXCEPT !.op = "set_hash", !.tx = TxSetHash(last.tx)]
    /\ UNCHANGED <<blocks, state, snap, base, blk, mined, rpc>>

TxCalculateHashCall ==
    /\ last.op \in {"new", "set_hash"}
    /\ last' = [last EXCEPT !.op = "calculate_hash", !.digest = TxCalculateHash(last.tx)]
    /\ UNCHANGED <<blocks, state, snap, base, blk, mined, rpc>>

NextTx == TxValidate \/ TxSetHashCall \/ TxCalculateHashCall

SpecTx == InitTx /\ [][NextTx]_vars

\* The shape invariants of a transaction.
ShapeInvariants(tx) ==
    /\ tx.gas_limit > 0
    /\ tx.gas_price > 0
    /\ tx.tx_type = "Transfer" => (tx.to # NoAddress /\ tx.data = << >>)
    /\ tx.tx_type = "ContractDeployment" => (tx.to = NoAddress /\ tx.data # << >>)
    /\ tx.tx_type = "ContractCall" => tx.to # NoAddress

\* C19: validate returns Ok exactly when the shape invariants hold, and an
\* error for every other combination of fields.
C19_ValidateShape ==
    last.op = "validate" =>
        /\ (last.result = "Ok") <=> ShapeInvariants(last.tx)
        /\ last.result # ""

C19_Witness ==
    /\ last.op = "validate"
    /\ last.result = "Ok"
    /\ last.tx.tx_type = "ContractCall"
    /\ last.tx.data = << >>

\* The envelope of a transaction: every field but the stored hash.
Envelope(tx) == [tx EXCEPT !.hash = NoHash]

\* The envelope with an absent recipient read as the zero address.
EnvelopeZeroed(tx) ==
    [Envelope(tx) EXCEPT !.to = IF @ = NoAddress THEN ZeroAddress ELSE @]

\* C20 (as stated): two transactions feed calculate_hash the same bytes if
\* and only if they agree on every envelope field, to = None against
\* to = Some(address) included.
C20_Original ==
    last.op = "calculate_hash" =>
        \A other \in TxInputs :
            (TxHashInput(other) = TxHashInput(last.tx))
                <=> (Envelope(other) = Envelope(last.tx))

\* C20 (amended): two transactions feed calculate_hash the same bytes if and
\* only if they agree on every envelope field once an absent recipient is
\* read as the zero address, so that transactions which pass validate and
\* differ in an envelope field get distinct inputs; the stored hash field
\* does not influence the result.
C20_Amended ==
    last.op = "calculate_hash" =>
        /\ \A other \in TxInputs :
              /\ (TxHashInput(other) = TxHashInput(last.tx))
                     <=> (EnvelopeZeroed(other) = EnvelopeZeroed(last.tx))
              /\ (validate(other) = "Ok" /\ validate(last.tx) = "Ok")
                     => ((TxCalculateHash(other) = last.digest)
                            <=> (Envelope(other) = Envelope(last.tx)))
        /\ last.digest = TxCalculateHash(Envelope(last.tx))

\* calculate_hash ran on a transaction without recipient whose hash field
\* was set, and a transaction to the zero address is its only other match.
C20_Witness ==
    /\ last.op = "calculate_hash"
    /\ last.tx.to = NoAddress
    /\ last.tx.hash # NoHash
    /\ validate(last.tx) = "Ok"
    /\ \E other \in TxInputs :
          /\ other.to = ZeroAddress
          /\ TxCalculateHash(other) = last.digest

\* WorldState::get_all_storage
get_all_storage(ws, address) ==
    IF address \in DOMAIN ws.accounts THEN ws.accounts[address].storage ELSE NoStorage

\* C21: after any sequence of set_storage and clear_storage (and the other
\* WorldState methods) no storage slot holds 0: get_storage answers 0 exactly
\* for the slots that are absent, so a slot written with 0 is gone and an
\* account whose slots were all reset to 0 has an empty storage map.
C21_NoZeroSlot ==
    \A a \in Addresses :
        /\ \A k \in DOMAIN get_all_storage(state, a) : get_all_storage(state, a)[k] # 0
        /\ \A k \in StorageKeys :
              (get_storage(state, a, k) = 0) <=> (k \notin DOMAIN get_all_storage(state, a))
        /\ (\A k \in StorageKeys : get_storage(state, a, k) = 0)
              => get_all_storage(state, a) = NoStorage

\* set_storage wrote 0 to the one slot an account still held.
C21_Witness ==
    /\ last.op = "set_storage"
    /\ \E a \in Users :
          /\ Cardinality(DOMAIN get_all_storage(last.pre_state, a)) = 1
          /\ a \in DOMAIN state.accounts
          /\ get_all_storage(state, a) = NoStorage

\* C22: view_contract_call never changes the Blockchain: the block list,
\* every account and the state root are after the call what they were
\* before it, whether the VM answers with success, a revert or an error.
C22_ViewChangesNothing ==
    last.op = "view_contract_call" =>
        /\ blocks = last.pre_blocks
        /\ state.accounts = last.pre_state.accounts
        /\ state.state_root = last.pre_state.state_root

\* A view call succeeded for a caller that has an account in the state.
C22_Witness ==
    /\ last.op = "view_contract_call"
    /\ last.ok
    /\ last.return_data # << >>
    /\ last.caller \in DOMAIN state.accounts
    /\ Len(blocks) >= 2

\* The Empty predicate: no balance, no nonce, no code, no storage.
Empty(account) ==
    /\ account.balance = 0
    /\ account.nonce = 0
    /\ account.code = << >>
    /\ account.storage = NoStorage

\* C23: remove_empty_accounts deletes exactly the accounts that are Empty
\* and leaves every other account as it was; set_balance never takes an
\* account out of the map, so an account whose balance went back to 0 is
\* counted until the sweep runs.
C23_SweepExact ==
    /\ last.op = "remove_empty_accounts" =>
          /\ DOMAIN state.accounts
                = {a \in DOMAIN last.pre_state.accounts : ~Empty(last.pre_state.accounts[a])}
          /\ \A a \in DOMAIN state.accounts :
                state.accounts[a] = last.pre_state.accounts[a]
          /\ account_count(state) <= account_count(last.pre_state)
    /\ last.op = "set_balance" =>
          /\ DOMAIN last.pre_state.accounts \subseteq DOMAIN state.accounts
          /\ account_count(state) >= 1

\* The sweep ran on a state with an account holding only storage, and took
\* another account away.
C23_Witness ==
    /\ last.op = "remove_empty_accounts"
    /\ \E a \in DOMAIN state.accounts :
          /\ state.accounts[a].balance = 0 /\ state.accounts[a].nonce = 0
          /\ state.accounts[a].code = << >> /\ state.accounts[a].storage # NoStorage
    /\ account_count(state) < account_count(last.pre_state)

\* set_balance brought the only balance back to 0 and the account is counted.
C23_WitnessReset ==
    /\ last.op = "set_balance"
    /\ \E a \in DOMAIN state.accounts :
          /\ Empty(state.accounts[a])
          /\ a \in DOMAIN last.pre_state.accounts
          /\ last.pre_state.accounts[a].balance > 0

\* C24 (as stated): a query for block n, through get_block_by_number or
\* through eth_getBlockByNumber, answers with the block whose number is n
\* when n is below the block count and with none otherwise.
C24_BlockAt ==
    last.op \in {"get_block_by_number", "eth_getBlockByNumber"} =>
        IF last.number < Len(blocks)
        THEN last.ok /\ last.returned.number = last.number
        ELSE ~last.ok

\* C25 (as stated): the world state is a function of the block list alone.
\* The chain before a call of add_block or mine_block and the chain after it
\* are two instances driven through these calls only: when they hold the
\* same blocks they hold the same accounts and the same state root.
C25_StateOfBlocks ==
    (last.op \in {"add_block", "mine_block"} /\ blocks = last.pre_blocks) =>
        /\ state.accounts = last.pre_state.accounts
        /\ state.state_root = last.pre_state.state_root

\* C26: a contract transaction for which the VM reports Revert counts as
\* executed: execute_transaction returns its outcome, with success = false
\* and the gas and the output the VM reported, the sender's nonce advances,
\* and a block all of whose transactions ran is appended with the outcome's
\* gas in its gas_used.  When the VM reports Halt, execute_transaction
\* returns an error and add_block fails.
C26_RevertCounts ==
    \A i \in 1..Len(last.trace) :
        LET e == last.trace[i]
        IN IsVmTx(e.tx) =>
              /\ e.answer.kind = "Revert" =>
                    /\ e.ok
                    /\ e.outcome # NoOutcome
                    /\ ~e.outcome.success
                    /\ e.outcome.return_data = e.answer.output
                    /\ e.outcome.gas_used = e.answer.gas_used
                    /\ get_nonce(e.after, e.tx.from) > get_nonce(e.before, e.tx.from)
                    /\ i = Len(last.trace) =>
                          /\ last.ok
                          /\ Len(blocks) = Len(last.pre_blocks) + 1
                          /\ get_latest_block(blocks).gas_used
                                = TraceGas(last.trace, 1)
                          /\ CountedGas(e) = e.answer.gas_used
              /\ e.answer.kind = "Halt" =>
                    /\ ~e.ok /\ ~last.ok
                    /\ blocks = last.pre_blocks

\* A block whose last transaction the VM reverted was appended after
\* another transaction of the block.
C26_Witness ==
    /\ Appended
    /\ Len(last.trace) >= 2
    /\ last.trace[Len(last.trace)].answer.kind = "Revert"
    /\ last.trace[Len(last.trace)].tx.from \in DOMAIN last.pre_state.accounts

\* A block failed on a transaction for which the VM reported Halt.
C26_WitnessHalt ==
    /\ FailedInReplay
    /\ last.trace[Len(last.trace)].answer.kind = "Halt"

----------------------------------------------------------------------------
(* The RPC server under concurrent requests.  Every request runs in its    *)
(* own handler; a handler takes the blockchain mutex for each block of     *)
(* code that locks it and gives it back at the end of that block.  `rpc`   *)
(* holds the mutex, the pool, and for each handler its request, its place  *)
(* in the code and its local variables.                                    *)

Handlers == {1, 2}

NoRequest == [method |-> "none"]

\* A request of user 1 with "gas" and "gasPrice" given: a Transfer that the
\* reward of one block pays for.
CheapParams ==
    [from |-> 1, to |-> 2, value |-> 100, data |-> << >>, gas |-> 1, gasPrice |-> 1]

\* The requests the server is sent.
Requests ==
    {[method |-> "eth_blockNumber"], [method |-> "eth_getBalance", address |-> 2]}
    \cup {[method |-> "eth_sendTransaction", params |-> p] :
             p \in SendParams \cup {CheapParams}}

\* handle_send_transaction: "gas" and "gasPrice", or their defaults
\* 0x5208 and 0x4a817c800 when the parameter is left out.
GasParam(params) == IF "gas" \in DOMAIN params THEN params.gas ELSE TransferGas
GasPriceParam(params) ==
    IF "gasPrice" \in DOMAIN params THEN params.gasPrice ELSE DefaultGasPrice

NoLocal == [tx |-> NoRequest, txs |-> << >>, ok |-> FALSE, blocks |-> << >>,
            state |-> NewWorldState, seen |-> << >>, trace |-> << >>, good |-> FALSE]

InitRpc ==
    /\ \E now \in Timestamps :
          /\ ~genesis(now).panicked
          /\ blocks = <<genesis(now).block>>
    /\ state = NewWorldState
    /\ rpc = [mutex |-> 0, poisoned |-> FALSE, pending |-> << >>,
              pool |-> 0, auto |-> 0, auto_mining |-> TRUE,
              pc |-> [h \in Handlers |-> "idle"],
              req |-> [h \in Handlers |-> NoRequest],
              local |-> [h \in Handlers |-> NoLocal],
              served |-> 0]
    /\ last = [op |-> "new", ok |-> TRUE, changes |-> 0]
    /\ snap = NoSnapshot
    /\ base = NewWorldState
    /\ blk = NoBlock
    /\ mined = NoMined

\* The places in a handler where it holds the guard of the blockchain mutex.
ReadSections == {"read", "nonce"}
MineSections == {"seal", "replay", "push_block", "unlock"}
InSection(h) == rpc.pc[h] \in ReadSections \cup MineSections

\* A mutant of MutexFree: a handler never waits.
MutexIgnored == TRUE

\* Mutex::lock returns once no other guard of the mutex is alive.
MutexFree == rpc.mutex = 0

\* The handler h moves to `pc`, the rest of the server's cells as given.
Goto(h, pc, cells) == rpc' = [cells EXCEPT !.pc[h] = pc]

\* warp hands a request of `requests` to a handler.
ReceiveOf(h, requests) ==
    /\ rpc.pc[h] = "idle"
    /\ rpc.served < MaxRequests
    /\ \E req \in requests :
          Goto(h, IF req.method = "eth_sendTransaction" THEN "lock_nonce" ELSE "lock_read",
               [rpc EXCEPT !.req[h] = req, !.local[h] = NoLocal, !.served = @ + 1])
    /\ UNCHANGED <<blocks, state, last, snap, base, blk, mined>>

Receive(h) == ReceiveOf(h, Requests)

\* server.blockchain.lock().unwrap(): the guard is taken, or the handler
\* panics on a mutex that a panic has poisoned.
LockBlockchain(h) ==
    /\ rpc.pc[h] \in {"lock_read", "lock_nonce", "lock_mine"}
    /\ MutexFree
    /\ IF rpc.poisoned
       THEN Goto(h, "panicked", rpc)
       ELSE Goto(h, CASE rpc.pc[h] = "lock_read" -> "read"
                      [] rpc.pc[h] = "lock_nonce" -> "nonce"
                      [] rpc.pc[h] = "lock_mine" -> "seal",
                 [rpc EXCEPT !.mutex = h])
    /\ UNCHANGED <<blocks, state, last, snap, base, blk, mined>>

\* handle_block_number, handle_get_balance: the read, the guard dropped at
\* the end of the function.
Read(h) ==
    /\ rpc.pc[h] = "read"
    /\ Goto(h, "idle",
            [rpc EXCEPT !.mutex = 0,
                        !.local[h].seen =
                            IF rpc.req[h].method = "eth_blockNumber"
                            THEN <<get_latest_block(blocks).number>>
                            ELSE <<get_balance(state, rpc.req[h].address)>>])
    /\ UNCHANGED <<blocks, state, last, snap, base, blk, mined>>

\* handle_send_transaction: the nonce is read in a block of its own, and the
\* transaction is built from it.
ReadNonce(h) ==
    /\ rpc.pc[h] = "nonce"
    /\ Goto(h, "lock_push",
            [rpc EXCEPT !.mutex = 0,
                        !.local[h].tx =
                            SendTransactionTx(state, rpc.req[h].params.from,
                                              rpc.req[h].params.to,
                                              rpc.req[h].params.value,
                                              rpc.req[h].params.data,
                                              GasParam(rpc.req[h].params),
                                              GasPriceParam(rpc.req[h].params))])
    /\ UNCHANGED <<blocks, state, last, snap, base, blk, mined>>

\* server.pending_transactions.lock().unwrap(), in handle_send_transaction
\* and in mine_pending_transactions: `pool` is the holder of the guard.
LockPending(h) ==
    /\ rpc.pc[h] \in {"lock_push", "lock_drain"}
    /\ rpc.pool = 0
    /\ Goto(h, IF rpc.pc[h] = "lock_push" THEN "push" ELSE "drain", [rpc EXCEPT !.pool = h])
    /\ UNCHANGED <<blocks, state, last, snap, base, blk, mined>>

\* handle_send_transaction: the push to the pool, the guard dropped at the
\* end of the block.  `good` notes whether the transaction is a Transfer
\* that would execute on its own on the state of the chain as it is: well
\* formed, its nonce the sender's, the balance sufficient.
PushPending(h) ==
    /\ rpc.pc[h] = "push"
    /\ Goto(h, "lock_auto",
            [rpc EXCEPT !.pending = Append(@, rpc.local[h].tx), !.pool = 0,
                        !.local[h].good =
                            /\ rpc.local[h].tx.from # ZeroAddress
                            /\ rpc.local[h].tx.tx_type = "Transfer"
                            /\ validate(rpc.local[h].tx) = "Ok"
                            /\ TransferChecks(state, rpc.local[h].tx) = "Ok"])
    /\ UNCHANGED <<blocks, state, last, snap, base, blk, mined>>

\* *server.auto_mining.lock().unwrap() in the condition of the `if`.
LockAutoMining(h) ==
    /\ rpc.pc[h] = "lock_auto"
    /\ rpc.auto = 0
    /\ Goto(h, "auto", [rpc EXCEPT !.auto = h])
    /\ UNCHANGED <<blocks, state, last, snap, base, blk, mined>>

\* The flag is read and the guard, a temporary of the condition, dropped
\* before the body of the `if` is entered.
ReadAutoMining(h) ==
    /\ rpc.pc[h] = "auto"
    /\ Goto(h, IF rpc.auto_mining THEN "lock_drain" ELSE "idle", [rpc EXCEPT !.auto = 0])
    /\ UNCHANGED <<blocks, state, last, snap, base, blk, mined>>

\* A mutant of Drained: the guard of the pool is kept while the batch is mined.
DrainedHoldingPool(h) == [rpc EXCEPT !.pending = << >>, !.local[h].txs = rpc.pending]

\* The server's cells once handler h has cloned and cleared the pool and
\* dropped its guard.
Drained(h) == [rpc EXCEPT !.pending = << >>, !.local[h].txs = rpc.pending, !.pool = 0]

\* mine_pending_transactions: the pool is cloned and cleared under its mutex.
Drain(h) ==
    /\ rpc.pc[h] = "drain"
    /\ Goto(h, IF rpc.pending = << >> THEN "idle" ELSE "lock_mine", Drained(h))
    /\ UNCHANGED <<blocks, state, last, snap, base, blk, mined>>

\* mine_block up to Block::mine: the block is built on the latest block and
\* sealed; a panic of Block::mine drops the guard and poisons the mutex.
Seal(h) ==
    /\ rpc.pc[h] = "seal"
    /\ \E now \in Timestamps :
       \E answers \in AnswersFor(rpc.local[h].txs) :
       \E r \in {mine_block(blocks, state, RpcMiner, rpc.local[h].txs, RpcDifficulty,
                            now, answers)} :
          IF r.err = "Mining took too long"
          THEN Goto(h, "panicked", [rpc EXCEPT !.mutex = 0, !.poisoned = TRUE])
          ELSE Goto(h, "replay",
                    [rpc EXCEPT !.local[h].ok = r.ok, !.local[h].blocks = r.blocks,
                                !.local[h].state = r.state,
                                !.local[h].trace = r.trace])
    /\ UNCHANGED <<blocks, state, last, snap, base, blk, mined>>

\* add_block inside mine_block: the transactions are executed on the state.
ReplayMined(h) ==
    /\ rpc.pc[h] = "replay"
    /\ state' = rpc.local[h].state
    /\ Goto(h, IF rpc.local[h].ok THEN "push_block" ELSE "unlock", rpc)
    /\ UNCHANGED <<blocks, last, snap, base, blk, mined>>

\* add_block inside mine_block: the block is pushed.
PushBlock(h) ==
    /\ rpc.pc[h] = "push_block"
    /\ blocks' = rpc.local[h].blocks
    /\ Goto(h, "unlock", rpc)
    /\ UNCHANGED <<state, last, snap, base, blk, mined>>

\* mine_pending_transactions: the guard is dropped at the end of its block.
Unlock(h) ==
    /\ rpc.pc[h] = "unlock"
    /\ Goto(h, "idle", [rpc EXCEPT !.mutex = 0])
    /\ UNCHANGED <<blocks, state, last, snap, base, blk, mined>>

NextRpc ==
    \E h \in Handlers :
        \/ Receive(h) \/ LockBlockchain(h) \/ Read(h) \/ ReadNonce(h)
        \/ LockPending(h) \/ PushPending(h) \/ LockAutoMining(h) \/ ReadAutoMining(h)
        \/ Drain(h) \/ Seal(h) \/ ReplayMined(h) \/ PushBlock(h) \/ Unlock(h)

SpecRpc == InitRpc /\ [][NextRpc]_vars

\* A step of the handler h on a request it has received, Block::mine apart.
Step(h) ==
    \/ LockBlockchain(h) \/ Read(h) \/ ReadNonce(h)
    \/ LockPending(h) \/ PushPending(h) \/ LockAutoMining(h) \/ ReadAutoMining(h)
    \/ Drain(h) \/ ReplayMined(h) \/ PushBlock(h) \/ Unlock(h)

\* Mining terminates: no handler stays in Block::mine for ever.  Seal(h) can
\* be taken wherever the handler is at "seal" and leaves that place, so
\* this is weak fairness of Seal(h).
MiningTerminates(h) == []<>(rpc.pc[h] # "seal")

\* The requests sent to the server whose progress is looked at: a read and
\* a Transfer that the reward pays for.
FairRequests ==
    {[method |-> "eth_blockNumber"],
     [method |-> "eth_sendTransaction", params |-> CheapParams]}

ReceiveFair(h) == ReceiveOf(h, FairRequests)

NextRpcFair == \E h \in Handlers : ReceiveFair(h) \/ Step(h) \/ Seal(h)

\* The server under a scheduler that lets no handler wait for ever on a
\* step it can take, with mining that terminates.
SpecRpcFair ==
    /\ InitRpc
    /\ [][NextRpcFair]_vars
    /\ \A h \in Handlers : WF_vars(Step(h)) /\ MiningTerminates(h)

\* No two handlers hold the guard at once, and the guard is the holder's.
OneGuard ==
    /\ \A g, h \in Handlers : (InSection(g) /\ InSection(h)) => g = h
    /\ \A h \in Handlers : InSection(h) <=> rpc.mutex = h

\* A step that changes the chain is taken by the holder of the guard, in
\* mine_block, while no other handler is reading.
WriteUnderGuard ==
    (blocks' # blocks \/ state' # state) =>
        \E h \in Handlers :
            /\ rpc.mutex = h
            /\ rpc.pc[h] \in MineSections
            /\ \A g \in Handlers \ {h} : ~InSection(g)

\* C27: under any interleaving of requests every read and every mutation of
\* the Blockchain is made by the one handler that holds the blockchain
\* mutex, and the mining of a batch (sealing, replay, push) is one critical
\* section: no handler reads while another is halfway through mine_block.
C27_OneWriter == []OneGuard /\ [][WriteUnderGuard]_vars

\* A handler is halfway through mine_block, the state replayed and the
\* block not pushed, while the other handler waits for the mutex to read.
C27_Witness ==
    \E g, h \in Handlers :
        /\ rpc.pc[h] = "push_block"
        /\ state # rpc.local[h].state \/ blocks # rpc.local[h].blocks
        /\ rpc.pc[g] = "lock_read"

\* Sequence s is a prefix of sequence t.
IsPrefix(s, t) == Len(s) <= Len(t) /\ \A i \in 1..Len(s) : s[i] = t[i]

\* C28: the block list is append-only: whatever the operation (add_block,
\* mine_block, a request, a contract deployment, call or view, a query) and
\* whether it succeeds or fails, the blocks before it are a prefix of the
\* blocks after it, every field of every block as it was.
C28_AppendOnly == [][IsPrefix(blocks, blocks') /\ Len(blocks') <= Len(blocks) + 1]_vars

\* A block was appended after the genesis block, and an operation then failed
\* on the longer chain, changing the world state and no block.
C28_Witness ==
    /\ Len(blocks) >= 2
    /\ blocks = last.pre_blocks
    /\ ~last.ok
    /\ last.op \in {"add_block", "mine_block", "deploy_contract_with_revm",
                    "call_contract_with_revm"}
    /\ state # last.pre_state

\* C29 (as stated): every block stored in the chain is sealed over its final
\* contents: its hash is calculate_hash of its stored fields, gas_used
\* included, whether Miner::mine_block sealed it before add_block or
\* add_block sealed it itself.
C29_SealedOverContents ==
    \A i \in 1..Len(blocks) : blocks[i].hash = calculate_hash(blocks[i])

\* The last call ran the replay loop of add_block on one transaction or more.
Replayed ==
    /\ last.op \in {"add_block", "mine_block", "eth_sendTransaction"}
    /\ last.trace # << >>

\* What execute_transaction answers for trace entry e on the state e started from.
Rerun(e) == execute_transaction(e.before, e.tx, e.answer)

\* C30: within one block add_block replays the transactions in list order,
\* each on the state the earlier ones produced: the first runs on the state
\* before the block, transaction i+1 on the state transaction i left, every
\* check and effect is that of execute_transaction on that state, and the
\* state after the call is the one the last transaction run left.
C30_ReplayInOrder ==
    Replayed =>
        LET trace == last.trace
        IN /\ Len(trace) <= Len(last.block.transactions)
           /\ trace[1].before = last.pre_state
           /\ state = trace[Len(trace)].after
           /\ \A i \in 1..Len(trace) :
                 /\ trace[i].tx = last.block.transactions[i]
                 /\ trace[i].ok = Rerun(trace[i]).ok
                 /\ trace[i].err = Rerun(trace[i]).err
                 /\ trace[i].after = Rerun(trace[i]).ws
                 /\ i < Len(trace) =>
                       /\ trace[i].ok
                       /\ trace[i + 1].before = trace[i].after
           /\ last.ok => Len(trace) = Len(last.block.transactions)

\* A block was appended whose second transaction passed its nonce and balance
\* checks on the state the coinbase at index 0 left, and would have failed
\* them on the state before the block.
C30_Witness ==
    /\ Replayed
    /\ last.ok
    /\ Len(last.trace) >= 2
    /\ last.trace[1].tx.from = ZeroAddress
    /\ last.trace[2].tx.tx_type = "Transfer"
    /\ last.trace[2].ok
    /\ ~execute_transaction(last.pre_state, last.trace[2].tx, last.trace[2].answer).ok

\* Miner::mine_block appended a block in which the miner, with no balance
\* before it, spent part of the reward the coinbase at index 0 had credited.
C30_WitnessMiner ==
    /\ C30_Witness
    /\ last.op = "mine_block"
    /\ last.trace[2].tx.from = last.miner
    /\ get_balance(last.pre_state, last.miner) = 0

\* A block was appended whose second transaction passed its nonce check
\* because the first had advanced the sender's nonce.
C30_WitnessNonce ==
    /\ Replayed
    /\ last.ok
    /\ Len(last.trace) >= 2
    /\ last.trace[1].tx.from = last.trace[2].tx.from
    /\ last.trace[2].tx.nonce # get_nonce(last.pre_state, last.trace[2].tx.from)
    /\ last.trace[2].tx.nonce = get_nonce(last.trace[1].after, last.trace[2].tx.from)
    /\ last.trace[2].ok

\* The account whose code a transaction handed to the executor runs: the
\* callee, or the account a deployment creates.
ExecutingContract(tx) ==
    IF tx.to = NoAddress THEN calculate_create_address(tx.from, tx.nonce) ELSE tx.to

\* C31 (as stated): storage written by the VM is mirrored into the world
\* state: once execute_transaction has returned Ok for a transaction the
\* executor ran, every slot the execution wrote reads back from the world
\* state with the written value.
C31_StorageMirrored ==
    \A i \in 1..Len(last.trace) :
        LET e == last.trace[i]
        IN (e.ok /\ e.outcome # NoOutcome) =>
              \A w \in e.answer.writes :
                  get_storage(e.after, ExecutingContract(e.tx), w.key) = w.value

\* The handler h has had add_block replay the batch it drained.
ReplayedBatch(h) == rpc.pc[h] \in {"replay", "push_block", "unlock"}

\* C32 (as stated): under any interleaving of eth_sendTransaction requests the
\* nonce the handler gave a transaction is the nonce of the sender's account
\* at the moment add_block replays that transaction.
C32_NonceAtReplay ==
    \A h \in Handlers :
        ReplayedBatch(h) =>
            \A i \in 2..Len(rpc.local[h].trace) :
                LET e == rpc.local[h].trace[i]
                IN e.tx.nonce = get_nonce(e.before, e.tx.from)

\* The account at an address, or its absence.
AccountAt(ws, a) == IF a \in DOMAIN ws.accounts THEN <<ws.accounts[a]>> ELSE << >>

\* C33: WorldState::transfer fails with "Insufficient balance" and changes
\* nothing when the sender's balance is below the amount; otherwise it
\* debits the sender, credits the recipient (an account from then on),
\* advances the sender's nonce by one, leaves every other account and every
\* other field as they were and recomputes the state root; a transfer to
\* oneself leaves the balance and advances the nonce.
C33_Transfer ==
    last.op = "transfer" =>
        LET pre == last.pre_state
            from == last.from
            to == last.to
        IN IF get_balance(pre, from) < last.amount
           THEN ~last.ok /\ last.err = "Insufficient balance" /\ state = pre
           ELSE /\ last.ok
                /\ get_balance(state, from)
                       = IF from = to THEN get_balance(pre, from)
                         ELSE get_balance(pre, from) - last.amount
                /\ from # to => get_balance(state, to) = get_balance(pre, to) + last.amount
                /\ get_nonce(state, from) = get_nonce(pre, from) + 1
                /\ from # to => get_nonce(state, to) = get_nonce(pre, to)
                /\ {from, to} \subseteq DOMAIN state.accounts
                /\ \A a \in {from, to} :
                      /\ state.accounts[a].code = get_account_mut(pre.accounts, a)[a].code
                      /\ state.accounts[a].storage
                             = get_account_mut(pre.accounts, a)[a].storage
                /\ \A a \in (DOMAIN state.accounts \cup DOMAIN pre.accounts) \ {from, to} :
                      AccountAt(state, a) = AccountAt(pre, a)
                /\ state = update_state_root(state)

\* A transfer of a positive amount succeeded to an address that held no
\* account.
C33_Witness ==
    /\ last.op = "transfer"
    /\ last.ok
    /\ last.amount > 0
    /\ last.to \notin DOMAIN last.pre_state.accounts
    /\ last.from # last.to

\* A transfer failed for want of balance from an address without account.
C33_WitnessFailed ==
    /\ last.op = "transfer"
    /\ ~last.ok
    /\ last.from \notin DOMAIN last.pre_state.accounts

\* A funded account transferred to itself.
C33_WitnessSelf ==
    /\ last.op = "transfer"
    /\ last.ok
    /\ last.amount > 0
    /\ last.from = last.to

\* Trace entry e is a transaction that took the Transfer path of
\* execute_transaction (no coinbase, no VM) to the end, between two accounts.
TransferredInReplay(e) ==
    /\ e.ok
    /\ e.tx.tx_type = "Transfer"
    /\ ~(e.tx.from = ZeroAddress /\ e.tx.to # NoAddress)
    /\ e.tx.to # NoAddress
    /\ e.tx.from # e.tx.to

\* C34: for every Transfer between two accounts that add_block replays
\* successfully the recipient gains exactly tx.value, the sender loses exactly
\* tx.value + gas_price * gas_limit, which is more than nothing, and no other
\* balance changes: the gas charge goes to nobody.
C34_FlatGasCharge ==
    Replayed =>
        \A i \in 1..Len(last.trace) :
            LET e == last.trace[i]
            IN TransferredInReplay(e) =>
                  /\ get_balance(e.after, e.tx.to) = get_balance(e.before, e.tx.to) + e.tx.value
                  /\ get_balance(e.after, e.tx.from)
                         = get_balance(e.before, e.tx.from)
                           - (e.tx.value + e.tx.gas_price * e.tx.gas_limit)
                  /\ get_balance(e.after, e.tx.from) < get_balance(e.before, e.tx.from)
                  /\ \A a \in ({ZeroAddress} \cup DOMAIN e.before.accounts
                                \cup DOMAIN e.after.accounts) \ {e.tx.from, e.tx.to} :
                         get_balance(e.after, a) = get_balance(e.before, a)

\* Miner::mine_block appended a block with a Transfer of another account to
\* the miner: the miner gained the reward and the value, the gas went nowhere.
C34_Witness ==
    /\ Replayed
    /\ last.ok
    /\ last.op = "mine_block"
    /\ \E i \in 1..Len(last.trace) :
          /\ TransferredInReplay(last.trace[i])
          /\ last.trace[i].tx.to = last.miner
          /\ last.trace[i].tx.gas_price * last.trace[i].tx.gas_limit > 0
          /\ get_balance(state, last.miner)
                 = get_balance(last.pre_state, last.miner) + BlockReward
                   + last.trace[i].tx.value

\* C35: execute_transaction is all or nothing: when it returns an error
\* (shape, nonce, balance, an error or a Halt of the VM) the world state,
\* accounts and state root, is what it was before the call.
C35_FailedTxChangesNothing ==
    Replayed =>
        \A i \in 1..Len(last.trace) :
            ~last.trace[i].ok => last.trace[i].after = last.trace[i].before

\* The transaction that failed in a replay, if one did.
FailedEntry == last.trace[Len(last.trace)]

\* A replay failed on a transaction the VM halted on, the sender holding an
\* account that an earlier transaction of the block had funded.
C35_Witness ==
    /\ FailedInReplay
    /\ FailedEntry.answer.kind = "Halt"
    /\ FailedEntry.before # last.pre_state
    /\ get_balance(FailedEntry.before, FailedEntry.tx.from) > 0

\* Replays failed on the shape, on the nonce and on the balance.
C35_WitnessShape == FailedInReplay /\ FailedEntry.err = validate(FailedEntry.tx)
C35_WitnessNonce == FailedInReplay /\ FailedEntry.err = "Invalid nonce"
C35_WitnessBalance ==
    FailedInReplay /\ FailedEntry.err = "Insufficient balance for transaction and gas"

\* C36: in every reachable state the block list is non-empty and every
\* block in it has its hash set, so that get_latest_block and the
\* hash.unwrap() of add_block, validate_chain and mine_block find their value.
C36_HashesSet ==
    /\ Len(blocks) >= 1
    /\ \A i \in 1..Len(blocks) : blocks[i].hash # NoHash

\* add_block appended a block that was handed to it without hash.
C36_Witness ==
    /\ last.op = "add_block"
    /\ last.ok
    /\ last.block.hash = NoHash
    /\ Len(blocks) >= 2

-----------------------------------------------------------------------------
(* A fresh chain driven through Miner::mine_block alone *)

MineBatch == MineBlockWithin(MaxMined)

NextMiner == MineBatch

SpecMiner == Init /\ [][NextMiner]_vars

\* The sum of the balances of the accounts at the addresses in `rest`.
RECURSIVE SumBalances(_, _)
SumBalances(ws, rest) ==
    IF rest = {} THEN 0
    ELSE LET a == Min(rest)
         IN ws.accounts[a].balance + SumBalances(ws, rest \ {a})

\* C37 (as stated): on a chain driven through Miner::mine_block alone,
\* whatever the batches, the balances of all accounts sum to no more than
\* get_total_supply(), the coinbase values of the blocks of the chain.
C37_NoValueCreated ==
    SumBalances(state, DOMAIN state.accounts) <= get_total_supply(blocks)

-----------------------------------------------------------------------------
(* A fresh chain given blocks whose gas_limit, a public field, the caller   *)
(* has set                                                                  *)

\* The gas limits of the blocks offered: that of Block::new, and one that
\* covers a single transaction.
GasLimits == {BlockGasLimit, FlatTxGas}

GasTxLists == {<<MintTx>>, <<MintTx, MintTx>>, <<MintTx, TransferTx(0)>>, <<TransferTx(0)>>}

GasBlockInputs(chain) ==
    {[BlockNew(get_latest_block(chain).number + 1, get_latest_block(chain).hash, l, now)
         EXCEPT !.gas_limit = g] :
        l \in GasTxLists, g \in GasLimits, now \in Timestamps}

AddGasBlock == AddBlockFrom(GasBlockInputs(blocks), MaxMined)

NextGas == AddGasBlock

SpecGas == Init /\ [][NextGas]_vars

\* C38 (as stated): every block of the chain respects its gas limit:
\* gas_used <= gas_limit, as validate_gas_usage wants it, after any sequence of
\* add_block calls; a block whose transactions use more is not appended.
C38_GasWithinLimit ==
    \A i \in 1..Len(blocks) : blocks[i].gas_used <= blocks[i].gas_limit

\* The mutexes of the server whose guard the handler h holds.
Held(h) ==
    {m \in {"blockchain", "pending_transactions", "auto_mining"} :
        \/ m = "blockchain" /\ rpc.mutex = h
        \/ m = "pending_transactions" /\ rpc.pool = h
        \/ m = "auto_mining" /\ rpc.auto = h}

NoTwoMutexes == \A h \in Handlers : Cardinality(Held(h)) <= 1

\* Every request a handler has started returns, unless Block::mine gave up
\* and poisoned the blockchain mutex.
EveryRequestReturns ==
    \A h \in Handlers : (rpc.pc[h] # "idle") ~> (rpc.pc[h] = "idle" \/ rpc.poisoned)

\* C39: the RPC front-end is deadlock-free: no handler ever holds two of the
\* three mutexes at once, and under any interleaving and a fair scheduler
\* every request that starts returns, provided mining terminates.
C39_DeadlockFree == []NoTwoMutexes /\ EveryRequestReturns

\* Both handlers are inside eth_sendTransaction, one mining under the
\* blockchain mutex, the other holding the mutex of the pool.
C39_Witness ==
    \E g, h \in Handlers :
        /\ rpc.mutex = g
        /\ rpc.pc[g] \in MineSections
        /\ rpc.pool = h
        /\ g # h
        /\ ~rpc.poisoned

\* A handler waits for the blockchain mutex while the other mines.
C39_WitnessWaiting ==
    \E g, h \in Handlers :
        /\ rpc.mutex = g
        /\ rpc.pc[g] \in MineSections
        /\ rpc.pc[h] \in {"lock_read", "lock_nonce", "lock_mine"}
        /\ ~rpc.poisoned

\* The transactions handle_send_transaction can build from the request of
\* FairRequests: one for each nonce the sender's account may show.
SendableTxs ==
    {TxSetHash(new_with_gas(ParseFrom(CheapParams.from), CheapParams.to, CheapParams.value,
                            CheapParams.data, CheapParams.gas, CheapParams.gasPrice, n,
                            "Transfer")) : n \in 0..(2 * MaxRequests)}

\* A handler has just pushed tx onto the pool, and tx would have executed
\* on its own on the state of the chain.
PushedGood(tx) ==
    \E h \in Handlers :
        rpc.pc[h] = "lock_auto" /\ rpc.local[h].tx = tx /\ rpc.local[h].good

\* tx is a transaction of a block of the chain.
InChain(tx) ==
    \E i \in 1..Len(blocks) :
        \E j \in 1..Len(blocks[i].transactions) : blocks[i].transactions[j] = tx

\* C40 (as stated): under auto-mining and a fair scheduler every transaction
\* that eth_sendTransaction pushed onto the pool and that would execute on
\* its own is in the end in a block of the chain, whatever is submitted or
\* drained along with it.  Runs in which Block::mine gives up are left out.
C40_EventuallyMined ==
    \A tx \in SendableTxs : PushedGood(tx) ~> (InChain(tx) \/ rpc.poisoned)

====
